---- MODULE Spec2Model ----
(***************************************************************************)
(* A model of the tesseract kinematic environment (KDLEnv), its allowed-   *)
(* collision policy and the contact-result aggregation of the collision    *)
(* checkers.                                                               *)
(*                                                                         *)
(* Rigid transforms are modelled by the isometries of the integer line:    *)
(* <<a, b>> is x |-> a*x + b with a in {1, -1}.  The group is not          *)
(* commutative, so the order of a composition is observable.  <<0, 0>> is  *)
(* not an isometry: it stands for the zero-filled memory of a transform    *)
(* that was never assigned.                                                *)
(***************************************************************************)
EXTENDS Integers, Sequences, FiniteSets, TLC

VARIABLES current_state, kdl_jnt_array, link_names, active_link_names,
          attachable_objects, attached_bodies, allowed_collision_matrix,
          discrete_manager, continuous_manager, call, last_named, cdata, query,
          threads, ompl

vars == <<current_state, kdl_jnt_array, link_names, active_link_names,
          attachable_objects, attached_bodies, allowed_collision_matrix,
          discrete_manager, continuous_manager, call, last_named, cdata, query,
          threads, ompl>>

(***************************************************************************)
(* Bounds of the model.                                                    *)
(***************************************************************************)
\* joint values range over 0..MaxVal
MaxVal == 1
\* the narrow-phase backend reports at most MaxReports contacts in one query
MaxReports == 2
\* isStateValid is called from at most MaxThreads threads at a time
MaxThreads == 2

Val == 0 .. MaxVal

(***************************************************************************)
(* Finite maps (std::map / std::unordered_map) as functions.               *)
(***************************************************************************)
EmptyMap == [k \in {} |-> 0]

Has(m, k) == k \in DOMAIN m

Put(m, k, v) == [x \in (DOMAIN m) \cup {k} |-> IF x = k THEN v ELSE m[x]]

Erase(m, k) == [x \in (DOMAIN m) \ {k} |-> m[x]]

\* map::insert(first, last): keys already present keep their value
InsertAll(m, n) == [x \in (DOMAIN m) \cup (DOMAIN n) |-> IF x \in DOMAIN m THEN m[x] ELSE n[x]]

SeqToSet(s) == {s[i] : i \in 1 .. Len(s)}

\* std::find(v.begin(), v.end(), x) != v.end()
Contains(s, x) == \E i \in 1 .. Len(s) : s[i] = x

\* v.erase(std::remove(v.begin(), v.end(), x), v.end())
RECURSIVE Remove(_, _)
Remove(s, x) ==
    IF s = <<>> THEN <<>>
    ELSE IF Head(s) = x THEN Remove(Tail(s), x)
    ELSE <<Head(s)>> \o Remove(Tail(s), x)

RECURSIVE Perms(_)
Perms(S) ==
    IF S = {} THEN {<<>>}
    ELSE UNION {{<<x>> \o p : p \in Perms(S \ {x})} : x \in S}

(***************************************************************************)
(* Names.  std::string comparison is lexicographic: NameOrder lists every  *)
(* name of the model in that order.                                        *)
(***************************************************************************)
NameOrder == <<"base", "cam", "ghost", "l1", "l2", "oA", "oB">>

Names == SeqToSet(NameOrder)

Rank(n) == CHOOSE i \in 1 .. Len(NameOrder) : NameOrder[i] = n

\* operator< of std::string
StrLess(a, b) == Rank(a) < Rank(b)

\* the attachable objects a caller may add
ObjectNames == {"oA", "oB"}

\* joint names a caller may pass: "jx" is not a joint of the tree
JointArgs == {"j1", "j2", "jx"}

(***************************************************************************)
(* Transforms.                                                             *)
(***************************************************************************)
Identity == <<1, 0>>

\* Eigen: parent * child
Compose(p, c) == <<p[1] * c[1], p[1] * c[2] + p[2]>>

\* what an unassigned Eigen::Isometry3d created by map::operator[] may hold
Uninitialized == {<<0, 0>>, <<1, 0>>}

(***************************************************************************)
(* The mechanism: the KDL tree built from the URDF.  base is the root,     *)
(* cam is fixed to base, l1 turns on base (joint j1), l2 slides on l1      *)
(* (joint j2).  base carries no collision geometry.                        *)
(***************************************************************************)
RootSegment == "base"

Segments ==
    [base |-> [joint |-> "base_joint", type |-> "None", q_nr |-> 0, f_tip |-> Identity,
               children |-> <<"cam", "l1">>, collision |-> FALSE],
     cam  |-> [joint |-> "cam_joint", type |-> "None", q_nr |-> 0, f_tip |-> <<1, 3>>,
               children |-> <<>>, collision |-> TRUE],
     l1   |-> [joint |-> "j1", type |-> "RotAxis", q_nr |-> 0, f_tip |-> <<1, 1>>,
               children |-> <<"l2">>, collision |-> TRUE],
     l2   |-> [joint |-> "j2", type |-> "TransAxis", q_nr |-> 1, f_tip |-> <<1, 1>>,
               children |-> <<>>, collision |-> TRUE]]

SegmentNames == DOMAIN Segments

\* urdf_model->links_ is a std::map: its iteration order is the name order
UrdfLinks == <<"base", "cam", "l1", "l2">>

NrOfJoints == Cardinality({s \in SegmentNames : Segments[s].type # "None"})

\* KDL::Joint::pose(q): a half turn per unit for a revolute joint, a unit
\* of translation per unit for a prismatic joint, nothing for a fixed one
JointPose(type, q) ==
    IF type = "RotAxis" THEN <<IF q % 2 = 0 THEN 1 ELSE -1, 0>>
    ELSE IF type = "TransAxis" THEN <<1, q>>
    ELSE Identity

\* KDL::Segment::pose(q) == joint.pose(q) * f_tip
SegmentPose(s, q) == Compose(JointPose(Segments[s].type, q), Segments[s].f_tip)

\* joint_to_qnr_ as built by init
joint_to_qnr ==
    [j \in {Segments[s].joint : s \in {t \in SegmentNames : Segments[t].type # "None"}} |->
        Segments[CHOOSE s \in SegmentNames : Segments[s].joint = j].q_nr]

TreeJoints == DOMAIN joint_to_qnr

(***************************************************************************)
(* Forward kinematics.                                                     *)
(***************************************************************************)
RECURSIVE calculateTransformsHelper(_, _, _, _)
RECURSIVE calculateTransformsChildren(_, _, _, _)
RECURSIVE calculateTransformsHelper_flat(_, _, _, _)
\* calculateTransformsHelper that hands its children the frame it was given
calculateTransformsHelper_flat(transforms, q_in, it, parent_frame) ==
    LET global_frame == Compose(parent_frame, SegmentPose(it, q_in[Segments[it].q_nr]))
    IN  calculateTransformsChildren(Put(transforms, it, global_frame), q_in,
                                    Segments[it].children, parent_frame)

\* transforms[segment] = parent_frame * segment.pose(q), then the children
calculateTransformsHelper(transforms, q_in, it, parent_frame) ==
    LET global_frame == Compose(parent_frame, SegmentPose(it, q_in[Segments[it].q_nr]))
    IN  calculateTransformsChildren(Put(transforms, it, global_frame), q_in,
                                    Segments[it].children, global_frame)

\* the loop over current_element.children
calculateTransformsChildren(transforms, q_in, children, global_frame) ==
    IF children = <<>> THEN transforms
    ELSE calculateTransformsChildren(
             calculateTransformsHelper(transforms, q_in, Head(children), global_frame),
             q_in, Tail(children), global_frame)

\* transforms[name] = transforms[parent] * offset for the attached bodies,
\* visited in the order ord.  map::operator[] creates the parent's entry
\* when it is missing; its value is then whatever the memory holds (g).
RECURSIVE overlayAttached(_, _, _, _)
overlayAttached(transforms, attached, ord, g) ==
    IF ord = <<>> THEN transforms
    ELSE LET info   == attached[Head(ord)]
             parent == info.parent_link_name
             pv     == IF Has(transforms, parent) THEN transforms[parent] ELSE g
             t1     == Put(transforms, parent, pv)
         IN  overlayAttached(Put(t1, Head(ord), Compose(pv, info.transform)),
                             attached, Tail(ord), g)

calculateTransforms(transforms, q_in, attached, ord, g) ==
    overlayAttached(calculateTransformsHelper(transforms, q_in, RootSegment, Identity),
                    attached, ord, g)

\* the helper that accepts a known joint without writing the joint array
setJointValuesHelper_arrayUntouched(q, joint_name, joint_value) ==
    [q |-> q, ok |-> Has(joint_to_qnr, joint_name)]

\* returns the joint array after the assignment and whether the joint exists
setJointValuesHelper(q, joint_name, joint_value) ==
    IF Has(joint_to_qnr, joint_name)
    THEN [q |-> [q EXCEPT ![joint_to_qnr[joint_name]] = joint_value], ok |-> TRUE]
    ELSE [q |-> q, ok |-> FALSE]

\* for (i = 0; i < joint_names.size(); ++i)
\*   if (setJointValuesHelper(q, joint_names[i], joint_values[i])) joints[joint_names[i]] = joint_values[i];
RECURSIVE setJointsLoop(_, _, _, _)
setJointsLoop(q, joints, joint_names, joint_values) ==
    IF joint_names = <<>> THEN [q |-> q, joints |-> joints]
    ELSE LET r == setJointValuesHelper(q, Head(joint_names), Head(joint_values))
         IN  setJointsLoop(r.q,
                           IF r.ok THEN Put(joints, Head(joint_names), Head(joint_values)) ELSE joints,
                           Tail(joint_names), Tail(joint_values))

\* every key a map of the model may hold, in lexicographic order
KeyOrder == <<"base", "cam", "ghost", "j1", "j2", "jx", "l1", "l2", "oA", "oB">>

\* the keys of a map, listed in the order of its iteration
MapKeys(m) == SelectSeq(KeyOrder, LAMBDA k : k \in DOMAIN m)

MapVals(m) == [i \in 1 .. Len(MapKeys(m)) |-> m[MapKeys(m)[i]]]

(***************************************************************************)
(* The collision object registry of a contact manager.                     *)
(***************************************************************************)
EmptyManager == [objects |-> EmptyMap, order |-> <<>>, active |-> <<>>, fn |-> "null"]

\* add on an existing name replaces the object; a new object sits at the origin
mgrRemoveCollisionObject(m, name) ==
    [m EXCEPT !.objects = Erase(m.objects, name), !.order = Remove(m.order, name)]

\* a new object is at the identity; pushed tells whether a transform was set
\* since, poses how many poses the last update of the object carried
mgrAddCollisionObject(m, name, shapes, enabled) ==
    LET m0 == mgrRemoveCollisionObject(m, name)
    IN  [m0 EXCEPT !.objects = Put(m0.objects, name,
                                   [enabled |-> enabled, shapes |-> shapes,
                                    tf1 |-> Identity, tf2 |-> Identity,
                                    pushed |-> FALSE, poses |-> 0]),
                   !.order = Append(m0.order, name)]

mgrSetEnabled(m, name, enabled) ==
    IF Has(m.objects, name) THEN [m EXCEPT !.objects[name].enabled = enabled] ELSE m

mgrEnableCollisionObject(m, name) == mgrSetEnabled(m, name, TRUE)

mgrDisableCollisionObject(m, name) == mgrSetEnabled(m, name, FALSE)

mgrSetActiveCollisionObjects(m, names) == [m EXCEPT !.active = names]

mgrSetIsContactAllowedFn(m, fn) == [m EXCEPT !.fn = fn]

\* setCollisionObjectsTransform(name, pose): one pose, repeated
mgrSetTransform(m, name, pose) ==
    IF Has(m.objects, name)
    THEN [m EXCEPT !.objects[name].tf1 = pose, !.objects[name].tf2 = pose,
                   !.objects[name].pushed = TRUE, !.objects[name].poses = 1]
    ELSE m

\* setCollisionObjectsTransform(name, pose1, pose2): an object that is not
\* active never receives the second pose
mgrSetTransform2(m, name, pose1, pose2) ==
    IF Has(m.objects, name)
    THEN [m EXCEPT !.objects[name].tf1 = pose1,
                   !.objects[name].tf2 = IF Contains(m.active, name) THEN pose2 ELSE pose1,
                   !.objects[name].pushed = TRUE, !.objects[name].poses = 2]
    ELSE m

\* setCollisionObjectsTransform(transforms): every entry of the map
mgrSetTransforms(m, transforms) ==
    [m EXCEPT !.objects = [n \in DOMAIN m.objects |->
        IF Has(transforms, n)
        THEN [m.objects[n] EXCEPT !.tf1 = transforms[n], !.tf2 = transforms[n],
                                  !.pushed = TRUE, !.poses = 1]
        ELSE m.objects[n]]]

(***************************************************************************)
(* KDLEnv.  An environment is the record of the fields of KDLEnv; every    *)
(* method is an operator from the environment and the arguments to the     *)
(* environment after the call and the returned value.  ord is the order in *)
(* which the call iterates attached_bodies_, g the content of a transform  *)
(* that operator[] creates.                                                *)
(***************************************************************************)
Env ==
    [current_state |-> current_state, kdl_jnt_array |-> kdl_jnt_array,
     link_names |-> link_names, active_link_names |-> active_link_names,
     attachable_objects |-> attachable_objects, attached_bodies |-> attached_bodies,
     allowed_collision_matrix |-> allowed_collision_matrix,
     discrete_manager |-> discrete_manager, continuous_manager |-> continuous_manager]

NoState == [joints |-> EmptyMap, transforms |-> EmptyMap]

Void(e) == [env |-> e, state |-> NoState]

\* getActiveLinkNamesRecursive over the link tree urdf, which gives every link
\* the type of its parent joint and its child links
RECURSIVE getActiveLinkNamesOf(_, _, _, _)
RECURSIVE getActiveLinkNamesChildren(_, _, _, _)

\* the recursion that does not descend below a link once it is active
getActiveLinkNamesOf_shallow(urdf, active_links, urdf_link, active) ==
    IF active
    THEN Append(active_links, urdf_link)
    ELSE getActiveLinkNamesChildren(urdf, active_links, urdf[urdf_link].children, FALSE)

getActiveLinkNamesOf(urdf, active_links, urdf_link, active) ==
    IF active
    THEN getActiveLinkNamesChildren(urdf, Append(active_links, urdf_link),
                                    urdf[urdf_link].children, TRUE)
    ELSE getActiveLinkNamesChildren(urdf, active_links, urdf[urdf_link].children, FALSE)

\* the loop over child_links: a child behind a joint that is not fixed is active
getActiveLinkNamesChildren(urdf, active_links, child_links, active) ==
    IF child_links = <<>> THEN active_links
    ELSE LET child == Head(child_links)
             next  == getActiveLinkNamesOf(
                          urdf, active_links, child, active \/ urdf[child].type # "None")
         IN  getActiveLinkNamesChildren(urdf, next, Tail(child_links), active)

\* getActiveLinkNamesRecursive(active_links, urdf_link, active) on the
\* mechanism of the environment
getActiveLinkNamesRecursive(active_links, urdf_link, active) ==
    getActiveLinkNamesOf(Segments, active_links, urdf_link, active)

\* the links of the URDF that carry collision geometry, enabled
RECURSIVE addLinks(_, _)
addLinks(m, links) ==
    IF links = <<>> THEN m
    ELSE addLinks(IF Segments[Head(links)].collision
                  THEN mgrAddCollisionObject(m, Head(links), "link", TRUE)
                  ELSE m,
                  Tail(links))

RECURSIVE addAttachables(_, _, _)
addAttachables(m, catalog, names) ==
    IF names = <<>> THEN m
    ELSE addAttachables(mgrAddCollisionObject(m, Head(names), catalog[Head(names)].shapes, FALSE),
                        catalog, Tail(names))

RECURSIVE enableAll(_, _)
enableAll(m, names) ==
    IF names = <<>> THEN m
    ELSE enableAll(mgrEnableCollisionObject(m, Head(names)), Tail(names))

\* the manager a successfully created plugin is turned into
loadContactManagerPlugin(e) ==
    LET m0 == mgrSetIsContactAllowedFn(EmptyManager, "env")
        m1 == addLinks(m0, UrdfLinks)
        m2 == addAttachables(m1, e.attachable_objects, MapKeys(e.attachable_objects))
    IN  enableAll(m2, MapKeys(e.attached_bodies))

\* KDLEnv::init(urdf_model)
InitEnv ==
    LET q0     == [i \in 0 .. NrOfJoints - 1 |-> 0]
        joints == [j \in TreeJoints |-> 0]
        tf     == calculateTransforms(EmptyMap, q0, EmptyMap, <<>>, Identity)
        active == getActiveLinkNamesRecursive(<<>>, RootSegment, FALSE)
        e0     == [current_state |-> [joints |-> joints, transforms |-> tf],
                   kdl_jnt_array |-> q0,
                   link_names |-> UrdfLinks, active_link_names |-> active,
                   attachable_objects |-> EmptyMap, attached_bodies |-> EmptyMap,
                   allowed_collision_matrix |-> {},
                   discrete_manager |-> EmptyManager, continuous_manager |-> EmptyManager]
        m      == mgrSetActiveCollisionObjects(loadContactManagerPlugin(e0), active)
    IN  [e0 EXCEPT !.discrete_manager = m, !.continuous_manager = m]

\* the loop that gives every name a start and an end pose
RECURSIVE setContinuousLoop_allSwept(_, _, _, _)
setContinuousLoop_allSwept(m, transforms, names, active) ==
    IF names = <<>> THEN m
    ELSE LET n == Head(names)
         IN  setContinuousLoop_allSwept(mgrSetTransform2(m, n, transforms[n], transforms[n]),
                                        transforms, Tail(names), active)

\* the loop of the Eigen overload over the live transforms: two poses for
\* the names of active_link_names_, one pose for the others
RECURSIVE setContinuousLoop(_, _, _, _)
setContinuousLoop(m, transforms, names, active) ==
    IF names = <<>> THEN m
    ELSE LET n == Head(names)
         IN  setContinuousLoop(
                 IF Contains(active, n)
                 THEN mgrSetTransform2(m, n, transforms[n], transforms[n])
                 ELSE mgrSetTransform(m, n, transforms[n]),
                 transforms, Tail(names), active)

\* the tail of every setState: recompute the live transforms and push them
\* to both managers, the continuous one link by link in the Eigen overload
setStateFinish(e, r, ord, g, link_by_link) ==
    LET tf == calculateTransforms(e.current_state.transforms, r.q, e.attached_bodies, ord, g)
    IN  [e EXCEPT !.current_state = [joints |-> r.joints, transforms |-> tf],
                  !.kdl_jnt_array = r.q,
                  !.discrete_manager = mgrSetTransforms(@, tf),
                  !.continuous_manager =
                      IF link_by_link
                      THEN setContinuousLoop(@, tf, MapKeys(tf), e.active_link_names)
                      ELSE mgrSetTransforms(@, tf)]

\* setState(const std::unordered_map<std::string, double>& joints)
setState_map(e, joints, ord, g) ==
    LET inserted == InsertAll(e.current_state.joints, joints)
        r == setJointsLoop(e.kdl_jnt_array, inserted, MapKeys(joints), MapVals(joints))
    IN  Void(setStateFinish(e, r, ord, g, FALSE))

\* setState that starts from the zero configuration instead of the live one
setState_vector_reset(e, joint_names, joint_values, ord, g) ==
    LET r == setJointsLoop([i \in DOMAIN e.kdl_jnt_array |-> 0],
                           [j \in DOMAIN e.current_state.joints |-> 0],
                           joint_names, joint_values)
    IN  Void(setStateFinish(e, r, ord, g, FALSE))

\* setState(const std::vector<std::string>&, const std::vector<double>&)
setState_vector(e, joint_names, joint_values, ord, g) ==
    LET r == setJointsLoop(e.kdl_jnt_array, e.current_state.joints, joint_names, joint_values)
    IN  Void(setStateFinish(e, r, ord, g, FALSE))

\* setState(const std::vector<std::string>&, const Eigen::Ref<const Eigen::VectorXd>&)
setState_eigen(e, joint_names, joint_values, ord, g) ==
    LET r == setJointsLoop(e.kdl_jnt_array, e.current_state.joints, joint_names, joint_values)
    IN  Void(setStateFinish(e, r, ord, g, TRUE))

\* getState(const std::unordered_map<std::string, double>& joints): the live
\* state and the joint array are copied, the copies are written
getState_map(e, joints, ord, g) ==
    LET state     == e.current_state
        jnt_array == e.kdl_jnt_array
        r  == setJointsLoop(jnt_array, state.joints, MapKeys(joints), MapVals(joints))
        tf == calculateTransforms(state.transforms, r.q, e.attached_bodies, ord, g)
    IN  [env |-> e, state |-> [joints |-> r.joints, transforms |-> tf]]

\* getState(const std::vector<std::string>&, const std::vector<double>&)
getState_vector(e, joint_names, joint_values, ord, g) ==
    LET state     == e.current_state
        jnt_array == e.kdl_jnt_array
        r  == setJointsLoop(jnt_array, state.joints, joint_names, joint_values)
        tf == calculateTransforms(state.transforms, r.q, e.attached_bodies, ord, g)
    IN  [env |-> e, state |-> [joints |-> r.joints, transforms |-> tf]]

\* getState that writes through the live state instead of a copy of it
getState_eigen_alias(e, joint_names, joint_values, ord, g) ==
    LET r  == setJointsLoop(e.kdl_jnt_array, e.current_state.joints, joint_names, joint_values)
        tf == calculateTransforms(e.current_state.transforms, r.q, e.attached_bodies, ord, g)
        state == [joints |-> r.joints, transforms |-> tf]
    IN  [env |-> [e EXCEPT !.current_state = state, !.kdl_jnt_array = r.q], state |-> state]

\* getState that overlays the joints on the live joint array instead of a copy
getState_eigen_liveArray(e, joint_names, joint_values, ord, g) ==
    LET state == e.current_state
        r  == setJointsLoop(e.kdl_jnt_array, state.joints, joint_names, joint_values)
        tf == calculateTransforms(state.transforms, r.q, e.attached_bodies, ord, g)
    IN  [env |-> [e EXCEPT !.kdl_jnt_array = r.q],
         state |-> [joints |-> r.joints, transforms |-> tf]]

\* getState(const std::vector<std::string>&, const Eigen::Ref<const Eigen::VectorXd>&)
getState_eigen(e, joint_names, joint_values, ord, g) ==
    LET state     == e.current_state
        jnt_array == e.kdl_jnt_array
        r  == setJointsLoop(jnt_array, state.joints, joint_names, joint_values)
        tf == calculateTransforms(state.transforms, r.q, e.attached_bodies, ord, g)
    IN  [env |-> e, state |-> [joints |-> r.joints, transforms |-> tf]]

\* addAttachableObject that leaves the managers' object of a known name in place
addAttachableObject_keepsKnown(e, attachable_object) ==
    LET name   == attachable_object.name
        known  == Has(e.attachable_objects, name)
    IN  Void([e EXCEPT
            !.attachable_objects = Put(@, name, attachable_object),
            !.discrete_manager =
                IF known THEN @ ELSE mgrAddCollisionObject(@, name, attachable_object.shapes, FALSE),
            !.continuous_manager =
                IF known THEN @ ELSE mgrAddCollisionObject(@, name, attachable_object.shapes, FALSE)])

\* addAttachableObject(attachable_object)
addAttachableObject(e, attachable_object) ==
    LET name   == attachable_object.name
        known  == Has(e.attachable_objects, name)
        d0     == IF known THEN mgrRemoveCollisionObject(e.discrete_manager, name)
                  ELSE e.discrete_manager
        c0     == IF known THEN mgrRemoveCollisionObject(e.continuous_manager, name)
                  ELSE e.continuous_manager
    IN  Void([e EXCEPT
            !.attachable_objects = Put(@, name, attachable_object),
            !.discrete_manager = mgrAddCollisionObject(d0, name, attachable_object.shapes, FALSE),
            !.continuous_manager = mgrAddCollisionObject(c0, name, attachable_object.shapes, FALSE)])

\* removeAttachableObject(name)
removeAttachableObject(e, name) ==
    IF Has(e.attachable_objects, name)
    THEN Void([e EXCEPT
            !.attachable_objects = Erase(@, name),
            !.discrete_manager = mgrRemoveCollisionObject(@, name),
            !.continuous_manager = mgrRemoveCollisionObject(@, name)])
    ELSE Void(e)

\* clearAttachableObjects(): the managers lose every object of the catalog
RECURSIVE mgrRemoveAll(_, _)
mgrRemoveAll(m, names) ==
    IF names = <<>> THEN m
    ELSE mgrRemoveAll(mgrRemoveCollisionObject(m, Head(names)), Tail(names))

clearAttachableObjects(e) ==
    LET names == MapKeys(e.attachable_objects)
    IN  Void([e EXCEPT
            !.attachable_objects = EmptyMap,
            !.discrete_manager = mgrRemoveAll(@, names),
            !.continuous_manager = mgrRemoveAll(@, names)])

\* attachBody without the test against the existing link names
attachBody_noLinkTest(e, attached_body_info, ord, g) ==
    LET name == attached_body_info.object_name IN
    IF Has(e.attached_bodies, name) THEN Void(e)
    ELSE IF ~Has(e.attachable_objects, name) THEN Void(e)
    ELSE
      LET links    == Append(e.link_names, name)
          active   == IF Contains(e.active_link_names, attached_body_info.parent_link_name)
                      THEN Append(e.active_link_names, name)
                      ELSE e.active_link_names
          attached == Put(e.attached_bodies, name, attached_body_info)
          tf       == calculateTransforms(e.current_state.transforms, e.kdl_jnt_array,
                                          attached, ord, g)
          push(m)  == mgrSetActiveCollisionObjects(
                          mgrSetTransform(mgrEnableCollisionObject(m, name), name, tf[name]),
                          active)
      IN  Void([e EXCEPT
              !.link_names = links,
              !.active_link_names = active,
              !.attached_bodies = attached,
              !.current_state.transforms = tf,
              !.discrete_manager = push(@),
              !.continuous_manager = push(@)])

\* attachBody(attached_body_info)
attachBody(e, attached_body_info, ord, g) ==
    LET name == attached_body_info.object_name IN
    IF Has(e.attached_bodies, name) THEN Void(e)
    ELSE IF ~Has(e.attachable_objects, name) THEN Void(e)
    ELSE IF Contains(e.link_names, name) THEN Void(e)
    ELSE
      LET links    == Append(e.link_names, name)
          active   == IF Contains(e.active_link_names, attached_body_info.parent_link_name)
                      THEN Append(e.active_link_names, name)
                      ELSE e.active_link_names
          attached == Put(e.attached_bodies, name, attached_body_info)
          tf       == calculateTransforms(e.current_state.transforms, e.kdl_jnt_array,
                                          attached, ord, g)
          push(m)  == mgrSetActiveCollisionObjects(
                          mgrSetTransform(mgrEnableCollisionObject(m, name), name, tf[name]),
                          active)
      IN  Void([e EXCEPT
              !.link_names = links,
              !.active_link_names = active,
              !.attached_bodies = attached,
              !.current_state.transforms = tf,
              !.discrete_manager = push(@),
              !.continuous_manager = push(@)])

\* detachBody that leaves the name in active_link_names_
detachBody_keepsActive(e, name) ==
    IF Has(e.attached_bodies, name)
    THEN LET active  == e.active_link_names
             drop(m) == mgrDisableCollisionObject(mgrSetActiveCollisionObjects(m, active), name)
         IN  Void([e EXCEPT
                 !.attached_bodies = Erase(@, name),
                 !.link_names = Remove(@, name),
                 !.active_link_names = active,
                 !.discrete_manager = drop(@),
                 !.continuous_manager = drop(@),
                 !.current_state.transforms = Erase(@, name)])
    ELSE Void(e)

\* detachBody(name)
detachBody(e, name) ==
    IF Has(e.attached_bodies, name)
    THEN LET active  == Remove(e.active_link_names, name)
             drop(m) == mgrDisableCollisionObject(mgrSetActiveCollisionObjects(m, active), name)
         IN  Void([e EXCEPT
                 !.attached_bodies = Erase(@, name),
                 !.link_names = Remove(@, name),
                 !.active_link_names = active,
                 !.discrete_manager = drop(@),
                 !.continuous_manager = drop(@),
                 !.current_state.transforms = Erase(@, name)])
    ELSE Void(e)

\* the loop that leaves the transforms of the bodies in the live state
RECURSIVE clearAttachedLoop_keepsTransforms(_, _)
clearAttachedLoop_keepsTransforms(e, names) ==
    IF names = <<>> THEN e
    ELSE LET name == Head(names)
         IN  clearAttachedLoop_keepsTransforms(
                 [e EXCEPT !.discrete_manager = mgrDisableCollisionObject(@, name),
                           !.continuous_manager = mgrDisableCollisionObject(@, name),
                           !.link_names = Remove(@, name),
                           !.active_link_names = Remove(@, name)],
                 Tail(names))

\* the loop of clearAttachedBodies over attached_bodies_
RECURSIVE clearAttachedLoop(_, _)
clearAttachedLoop(e, names) ==
    IF names = <<>> THEN e
    ELSE LET name == Head(names)
         IN  clearAttachedLoop(
                 [e EXCEPT !.discrete_manager = mgrDisableCollisionObject(@, name),
                           !.continuous_manager = mgrDisableCollisionObject(@, name),
                           !.link_names = Remove(@, name),
                           !.active_link_names = Remove(@, name),
                           !.current_state.transforms = Erase(@, name)],
                 Tail(names))

\* clearAttachedBodies that does not hand the managers the active links
clearAttachedBodies_managersNotTold(e) ==
    LET e1 == clearAttachedLoop(e, MapKeys(e.attached_bodies))
    IN  Void([e1 EXCEPT !.attached_bodies = EmptyMap])

\* clearAttachedBodies()
clearAttachedBodies(e) ==
    LET e1 == clearAttachedLoop(e, MapKeys(e.attached_bodies))
    IN  Void([e1 EXCEPT
            !.attached_bodies = EmptyMap,
            !.discrete_manager = mgrSetActiveCollisionObjects(@, e1.active_link_names),
            !.continuous_manager = mgrSetActiveCollisionObjects(@, e1.active_link_names)])

(***************************************************************************)
(* The allowed-collision policy.                                           *)
(***************************************************************************)
\* the pair as it was given
getObjectPairKey_asGiven(obj1, obj2) == <<obj1, obj2>>

\* obj1 < obj2 ? (obj1, obj2) : (obj2, obj1)
getObjectPairKey(obj1, obj2) ==
    IF StrLess(obj1, obj2) THEN <<obj1, obj2>> ELSE <<obj2, obj1>>

\* AllowedCollisionMatrix: the set of the canonical pairs that have an entry
acmAddAllowedCollision(acm, link_name1, link_name2) ==
    acm \cup {getObjectPairKey(link_name1, link_name2)}

acmRemoveAllowedCollision(acm, link_name1, link_name2) ==
    acm \ {getObjectPairKey(link_name1, link_name2)}

acmIsCollisionAllowed(acm, link_name1, link_name2) ==
    getObjectPairKey(link_name1, link_name2) \in acm

\* KDLEnv::defaultIsContactAllowedFn(link_name1, link_name2)
defaultIsContactAllowedFn(e, link_name1, link_name2) ==
    IF acmIsCollisionAllowed(e.allowed_collision_matrix, link_name1, link_name2) THEN TRUE
    ELSE LET it1 == Has(e.attached_bodies, link_name1)
             it2 == Has(e.attached_bodies, link_name2)
         IN  IF ~it1 /\ ~it2 THEN FALSE
             ELSE IF ~it1
             THEN \/ Contains(e.attached_bodies[link_name2].touch_links, link_name1)
                  \/ link_name1 = e.attached_bodies[link_name2].parent_link_name
             ELSE \/ Contains(e.attached_bodies[link_name1].touch_links, link_name2)
                  \/ link_name2 = e.attached_bodies[link_name1].parent_link_name

\* ChainOmplInterface::isContactAllowed(a, b)
ChainOmplInterface_isContactAllowed(e, a, b) ==
    acmIsCollisionAllowed(e.allowed_collision_matrix, a, b)

\* The IsContactAllowedFn values a manager may hold: no function, the
\* environment's default, the planner's, and the two constant functions.
ContactAllowedFns == {"null", "env", "ompl", "never", "always"}

\* acm(name1, name2) for a function that is not null
CallContactAllowedFn(e, acm, name1, name2) ==
    IF acm = "env" THEN defaultIsContactAllowedFn(e, name1, name2)
    ELSE IF acm = "ompl" THEN ChainOmplInterface_isContactAllowed(e, name1, name2)
    ELSE acm = "always"

\* isContactAllowed without its test for a body against itself
isContactAllowed_noSelfTest(e, name1, name2, acm) ==
    acm # "null" /\ CallContactAllowedFn(e, acm, name1, name2)

\* isContactAllowed(name1, name2, acm, verbose)
isContactAllowed(e, name1, name2, acm) ==
    IF name1 = name2 THEN TRUE
    ELSE IF acm # "null" /\ CallContactAllowedFn(e, acm, name1, name2) THEN TRUE
    ELSE FALSE

(***************************************************************************)
(* Contact queries.  ContactTestData holds the aggregation policy (type),  *)
(* the early-termination flag (done) and the result map (res) from pair    *)
(* key to contact list.                                                    *)
(***************************************************************************)
\* active.empty() || std::find(active.begin(), active.end(), name) != active.end()
isLinkActive(active, name) == active = <<>> \/ Contains(active, name)

\* processResult that never sets the early-termination flag
processResult_noDone(cd, contact, key, found) ==
    IF ~found
    THEN [cdata |-> [cd EXCEPT !.res = IF Has(@, key) THEN @ ELSE Put(@, key, <<contact>>)],
          stored |-> TRUE, asserted |-> FALSE]
    ELSE LET res0 == IF Has(cd.res, key) THEN cd.res ELSE Put(cd.res, key, <<>>)
             dr   == res0[key]
         IN  IF cd.type = "ALL"
             THEN [cdata |-> [cd EXCEPT !.res = Put(res0, key, Append(dr, contact))],
                   stored |-> TRUE, asserted |-> FALSE]
             ELSE IF cd.type = "CLOSEST" /\ dr # <<>> /\ contact.distance < dr[1].distance
             THEN [cdata |-> [cd EXCEPT !.res = Put(res0, key, [dr EXCEPT ![1] = contact])],
                   stored |-> TRUE, asserted |-> FALSE]
             ELSE [cdata |-> [cd EXCEPT !.res = res0],
                   stored |-> FALSE, asserted |-> cd.type = "FIRST"]

\* processResult that under ALL overwrites the stored list instead of appending
processResult_allOverwrites(cd, contact, key, found) ==
    IF ~found
    THEN [cdata |-> [cd EXCEPT !.done = (cd.type = "FIRST") \/ @,
                               !.res = IF Has(@, key) THEN @ ELSE Put(@, key, <<contact>>)],
          stored |-> TRUE, asserted |-> FALSE]
    ELSE LET res0 == IF Has(cd.res, key) THEN cd.res ELSE Put(cd.res, key, <<>>)
             dr   == res0[key]
         IN  IF cd.type = "ALL"
             THEN [cdata |-> [cd EXCEPT !.res = Put(res0, key, <<contact>>)],
                   stored |-> TRUE, asserted |-> FALSE]
             ELSE IF cd.type = "CLOSEST" /\ dr # <<>> /\ contact.distance < dr[1].distance
             THEN [cdata |-> [cd EXCEPT !.res = Put(res0, key, [dr EXCEPT ![1] = contact])],
                   stored |-> TRUE, asserted |-> FALSE]
             ELSE [cdata |-> [cd EXCEPT !.res = res0],
                   stored |-> FALSE, asserted |-> cd.type = "FIRST"]

\* processResult that under CLOSEST also replaces on an equal distance
processResult_closestNotGreater(cd, contact, key, found) ==
    IF ~found
    THEN [cdata |-> [cd EXCEPT !.done = (cd.type = "FIRST") \/ @,
                               !.res = IF Has(@, key) THEN @ ELSE Put(@, key, <<contact>>)],
          stored |-> TRUE, asserted |-> FALSE]
    ELSE LET res0 == IF Has(cd.res, key) THEN cd.res ELSE Put(cd.res, key, <<>>)
             dr   == res0[key]
         IN  IF cd.type = "ALL"
             THEN [cdata |-> [cd EXCEPT !.res = Put(res0, key, Append(dr, contact))],
                   stored |-> TRUE, asserted |-> FALSE]
             ELSE IF cd.type = "CLOSEST" /\ dr # <<>> /\ contact.distance <= dr[1].distance
             THEN [cdata |-> [cd EXCEPT !.res = Put(res0, key, [dr EXCEPT ![1] = contact])],
                   stored |-> TRUE, asserted |-> FALSE]
             ELSE [cdata |-> [cd EXCEPT !.res = res0],
                   stored |-> FALSE, asserted |-> cd.type = "FIRST"]

\* processResult(cdata, contact, key, found): the query data after the call,
\* whether a stored contact is returned (or nullptr), whether the assertion
\* cdata.type != FIRST failed
processResult(cd, contact, key, found) ==
    IF ~found
    THEN [cdata |-> [cd EXCEPT !.done = (cd.type = "FIRST") \/ @,
                               !.res = IF Has(@, key) THEN @ ELSE Put(@, key, <<contact>>)],
          stored |-> TRUE, asserted |-> FALSE]
    ELSE LET res0 == IF Has(cd.res, key) THEN cd.res ELSE Put(cd.res, key, <<>>)
             dr   == res0[key]
         IN  IF cd.type = "ALL"
             THEN [cdata |-> [cd EXCEPT !.res = Put(res0, key, Append(dr, contact))],
                   stored |-> TRUE, asserted |-> FALSE]
             ELSE IF cd.type = "CLOSEST" /\ dr # <<>> /\ contact.distance < dr[1].distance
             THEN [cdata |-> [cd EXCEPT !.res = Put(res0, key, [dr EXCEPT ![1] = contact])],
                   stored |-> TRUE, asserted |-> FALSE]
             ELSE [cdata |-> [cd EXCEPT !.res = res0],
                   stored |-> FALSE, asserted |-> cd.type = "FIRST"]

\* the objects of a manager, the active ones first
CowOrder(m) ==
    SelectSeq(m.order, LAMBDA n : isLinkActive(m.active, n)) \o
    SelectSeq(m.order, LAMBDA n : ~isLinkActive(m.active, n))

RECURSIVE PairsAfter(_, _, _)
PairsAfter(cows, i, j) ==
    IF j > Len(cows) THEN <<>>
    ELSE <<<<cows[i], cows[j]>>>> \o PairsAfter(cows, i, j + 1)

\* the pairs a query visits: an active object with every object after it
RECURSIVE QueryPairs(_, _, _)
QueryPairs(cows, active, i) ==
    IF i >= Len(cows) THEN <<>>
    ELSE (IF isLinkActive(active, cows[i]) THEN PairsAfter(cows, i, i + 1) ELSE <<>>)
         \o QueryPairs(cows, active, i + 1)

\* a pair is tested when both objects are enabled and contact between them
\* is not allowed
needsCollisionCheck(e, m, name1, name2) ==
    /\ m.objects[name1].enabled
    /\ m.objects[name2].enabled
    /\ ~isContactAllowed(e, name1, name2, m.fn)

(***************************************************************************)
(* A whole contact query as a function of the registry.  The narrow phase  *)
(* reports a contact for two objects that are at the same position.        *)
(***************************************************************************)
Collides(pose1, pose2) == pose1[2] = pose2[2]

\* the contact the narrow phase reports for two objects in contact
Penetration == [distance |-> -1, nearest_point |-> "p"]

\* the loop of contactTest over the pairs, ended by cdata.done
RECURSIVE contactTestLoop(_, _, _, _)
contactTestLoop(e, m, cd, pairs) ==
    IF pairs = <<>> \/ cd.done THEN cd
    ELSE LET name1 == Head(pairs)[1]
             name2 == Head(pairs)[2]
             key   == getObjectPairKey(name1, name2)
             hit   == /\ needsCollisionCheck(e, m, name1, name2)
                      /\ Collides(m.objects[name1].tf1, m.objects[name2].tf1)
         IN  contactTestLoop(e, m,
                 IF hit THEN processResult(cd, Penetration, key, Has(cd.res, key)).cdata
                 ELSE cd,
                 Tail(pairs))

\* contactTest(collisions, type) on a manager: the result map
mgrContactTest(e, m, type) ==
    contactTestLoop(e, m, [type |-> type, done |-> FALSE, res |-> EmptyMap],
                    QueryPairs(CowOrder(m), m.active, 1)).res

\* clone(): an independent registry with the same objects, active set and
\* allowed-contact function
mgrClone(m) == m

(***************************************************************************)
(* ChainOmplInterface.                                                     *)
(***************************************************************************)
\* the joints and links of the manipulator the interface plans for
ManipJointNames == <<"j1", "j2">>

ManipLinkNames == <<"l1", "l2">>

\* env_->getDiscreteContactManager()
getDiscreteContactManager(e) == mgrClone(e.discrete_manager)

\* ChainOmplInterface(environment, manipulator_name)
ChainOmplInterface(e) ==
    [contact_manager |->
         mgrSetIsContactAllowedFn(
             mgrSetActiveCollisionObjects(getDiscreteContactManager(e), ManipLinkNames),
             "ompl"),
     joint_names |-> ManipJointNames,
     link_names |-> ManipLinkNames]

\* return contact_map.empty() answering valid for a map with contacts
isStateValidResult_inverted(contact_map) == contact_map # EmptyMap

\* return contact_map.empty()
isStateValidResult(contact_map) == contact_map = EmptyMap

\* isStateValid(state) run from beginning to end: the environment after the
\* call and the value returned
isStateValid(e, o, s, ord, g) ==
    LET r           == getState_eigen(e, o.joint_names, s, ord, g)
        cm          == mgrSetTransforms(mgrClone(o.contact_manager), r.state.transforms)
        contact_map == mgrContactTest(r.env, cm, "FIRST")
    IN  [env |-> r.env, result |-> isStateValidResult(contact_map)]

(***************************************************************************)
(* The calls a client makes and their arguments.                           *)
(***************************************************************************)
\* the unordered_map arguments of setState and getState: no joint, one
\* joint, all joints, a joint the tree does not contain
JointMaps == UNION {[D -> Val] : D \in {{}, {"j1"}, {"j1", "j2"}, {"j2", "jx"}}}

\* the name vectors of setState and getState: empty, one joint, all joints,
\* a joint the tree does not contain, a joint named twice
NameVectors == {<<>>, <<"j1">>, <<"j2", "j1">>, <<"j1", "jx">>, <<"j2", "j2">>}

ValueVectors(joint_names) == [1 .. Len(joint_names) -> Val]

\* the assignment a pair of vectors stands for: the last entry of a name wins
RECURSIVE Overlay(_, _)
Overlay(joint_names, joint_values) ==
    IF joint_names = <<>> THEN EmptyMap
    ELSE LET n == Len(joint_names)
         IN  Put(Overlay(SubSeq(joint_names, 1, n - 1), SubSeq(joint_values, 1, n - 1)),
                 joint_names[n], joint_values[n])

AttachableObjects == {[name |-> n, shapes |-> "box"] : n \in ObjectNames}

\* the AttachedBodyInfo arguments of attachBody
\* oA on the moving link l2, touching l1
Info_oA_l2 ==
    [object_name |-> "oA", parent_link_name |-> "l2", transform |-> <<1, 2>>,
     touch_links |-> <<"l1">>]

\* oA on the static link cam, mirrored, touching oB
Info_oA_cam ==
    [object_name |-> "oA", parent_link_name |-> "cam", transform |-> <<-1, 1>>,
     touch_links |-> <<"oB">>]

\* oB on the attached body oA
Info_oB_oA ==
    [object_name |-> "oB", parent_link_name |-> "oA", transform |-> <<1, 1>>,
     touch_links |-> <<>>]

\* oB on the moving link l1, touching oA
Info_oB_l1 ==
    [object_name |-> "oB", parent_link_name |-> "l1", transform |-> <<-1, 2>>,
     touch_links |-> <<"oA">>]

\* oB on the moving link l1, touching nothing
Info_oB_plain ==
    [object_name |-> "oB", parent_link_name |-> "l1", transform |-> <<-1, 2>>,
     touch_links |-> <<>>]

\* an object with the name of the link cam, on the moving link l1
Info_cam_l1 ==
    [object_name |-> "cam", parent_link_name |-> "l1", transform |-> <<1, 1>>,
     touch_links |-> <<>>]

\* oB on a link that does not exist, touching cam
Info_oB_ghost ==
    [object_name |-> "oB", parent_link_name |-> "ghost", transform |-> <<1, 1>>,
     touch_links |-> <<"cam">>]

\* the attachment the joint-state specifications use
StateAttachedBodyInfos == {Info_oA_l2}

\* the attachments the policy specification uses
PolicyAttachedBodyInfos == {Info_oA_l2, Info_oB_oA, Info_oB_l1}

\* the contents an operator[]-created transform may have in a call: a single
\* one when every parent link is a segment, which the tree pass always sets
UninitializedFor(parents) ==
    IF parents \subseteq SegmentNames THEN {<<0, 0>>} ELSE Uninitialized

Parents(attached) == {attached[n].parent_link_name : n \in DOMAIN attached}

SetEnv(e) ==
    /\ current_state' = e.current_state
    /\ kdl_jnt_array' = e.kdl_jnt_array
    /\ link_names' = e.link_names
    /\ active_link_names' = e.active_link_names
    /\ attachable_objects' = e.attachable_objects
    /\ attached_bodies' = e.attached_bodies
    /\ allowed_collision_matrix' = e.allowed_collision_matrix
    /\ discrete_manager' = e.discrete_manager
    /\ continuous_manager' = e.continuous_manager

\* the call is recorded with the assignment it was given and what it returned
ReturnWith(r, op, overlay, args) ==
    /\ SetEnv(r.env)
    /\ call' = [op |-> op, overlay |-> overlay, state |-> r.state,
                args |-> args, result |-> FALSE]

Return(r, op, overlay) == ReturnWith(r, op, overlay, <<>>)

\* the value each joint of the tree was given by the last setState naming it
Named(overlay) ==
    [j \in TreeJoints |-> IF Has(overlay, j) THEN overlay[j] ELSE last_named[j]]

IdleData == [type |-> "FIRST", done |-> FALSE, res |-> EmptyMap]

IdleQuery ==
    [running |-> FALSE, manager |-> EmptyManager, pairs |-> <<>>, pos |-> 1,
     reports |-> 0, asserted |-> FALSE, passed |-> EmptyMap]

\* a thread that is not inside isStateValid
IdleThread ==
    [pc |-> "idle", s |-> <<>>, env_state |-> NoState, cm |-> EmptyManager,
     contact_map |-> EmptyMap]

Threads == 1 .. MaxThreads

\* no ChainOmplInterface has been constructed
NoInterface == [contact_manager |-> EmptyManager, joint_names |-> <<>>, link_names |-> <<>>]

\* the variables once the environment e and the interface o are constructed
InitVarsWith(e, o) ==
    /\ current_state = e.current_state
    /\ kdl_jnt_array = e.kdl_jnt_array
    /\ link_names = e.link_names
    /\ active_link_names = e.active_link_names
    /\ attachable_objects = e.attachable_objects
    /\ attached_bodies = e.attached_bodies
    /\ allowed_collision_matrix = e.allowed_collision_matrix
    /\ discrete_manager = e.discrete_manager
    /\ continuous_manager = e.continuous_manager
    /\ call = [op |-> "init", overlay |-> EmptyMap, state |-> NoState,
               args |-> <<>>, result |-> FALSE]
    /\ last_named = [j \in TreeJoints |-> 0]
    /\ cdata = IdleData
    /\ query = IdleQuery
    /\ threads = [t \in Threads |-> IdleThread]
    /\ ompl = o

InitVars(e) == InitVarsWith(e, NoInterface)

Init == InitVars(InitEnv)

SetStateMap ==
    \E joints \in JointMaps, ord \in Perms(DOMAIN attached_bodies),
       g \in UninitializedFor(Parents(attached_bodies)) :
        /\ Return(setState_map(Env, joints, ord, g), "setState", joints)
        /\ last_named' = Named(joints)
        /\ UNCHANGED <<cdata, query, threads, ompl>>

SetStateVector ==
    \E joint_names \in NameVectors, ord \in Perms(DOMAIN attached_bodies),
       g \in UninitializedFor(Parents(attached_bodies)) :
        \E joint_values \in ValueVectors(joint_names) :
            /\ Return(setState_vector(Env, joint_names, joint_values, ord, g), "setState",
                      Overlay(joint_names, joint_values))
            /\ last_named' = Named(Overlay(joint_names, joint_values))
            /\ UNCHANGED <<cdata, query, threads, ompl>>

SetStateEigen ==
    \E joint_names \in NameVectors, ord \in Perms(DOMAIN attached_bodies),
       g \in UninitializedFor(Parents(attached_bodies)) :
        \E joint_values \in ValueVectors(joint_names) :
            /\ ReturnWith(setState_eigen(Env, joint_names, joint_values, ord, g), "setState",
                          Overlay(joint_names, joint_values), <<"Eigen::VectorXd">>)
            /\ last_named' = Named(Overlay(joint_names, joint_values))
            /\ UNCHANGED <<cdata, query, threads, ompl>>

\* setState(joint_names, joint_values) for the given lists of names
SetStateVectorOf(name_vectors) ==
    \E joint_names \in name_vectors, ord \in Perms(DOMAIN attached_bodies),
       g \in UninitializedFor(Parents(attached_bodies)) :
        \E joint_values \in ValueVectors(joint_names) :
            /\ Return(setState_vector(Env, joint_names, joint_values, ord, g), "setState",
                      Overlay(joint_names, joint_values))
            /\ last_named' = Named(Overlay(joint_names, joint_values))
            /\ UNCHANGED <<cdata, query, threads, ompl>>

\* getState(joint_names, joint_values) for the given lists of names
GetStateVectorOf(name_vectors) ==
    \E joint_names \in name_vectors, ord \in Perms(DOMAIN attached_bodies),
       g \in UninitializedFor(Parents(attached_bodies)) :
        \E joint_values \in ValueVectors(joint_names) :
            /\ Return(getState_vector(Env, joint_names, joint_values, ord, g), "getState",
                      Overlay(joint_names, joint_values))
            /\ UNCHANGED <<last_named, cdata, query, threads, ompl>>

GetStateMap ==
    \E joints \in JointMaps, ord \in Perms(DOMAIN attached_bodies),
       g \in UninitializedFor(Parents(attached_bodies)) :
        /\ Return(getState_map(Env, joints, ord, g), "getState", joints)
        /\ UNCHANGED <<last_named, cdata, query, threads, ompl>>

GetStateVector ==
    \E joint_names \in NameVectors, ord \in Perms(DOMAIN attached_bodies),
       g \in UninitializedFor(Parents(attached_bodies)) :
        \E joint_values \in ValueVectors(joint_names) :
            /\ Return(getState_vector(Env, joint_names, joint_values, ord, g), "getState",
                      Overlay(joint_names, joint_values))
            /\ UNCHANGED <<last_named, cdata, query, threads, ompl>>

GetStateEigen ==
    \E joint_names \in NameVectors, ord \in Perms(DOMAIN attached_bodies),
       g \in UninitializedFor(Parents(attached_bodies)) :
        \E joint_values \in ValueVectors(joint_names) :
            /\ Return(getState_eigen(Env, joint_names, joint_values, ord, g), "getState",
                      Overlay(joint_names, joint_values))
            /\ UNCHANGED <<last_named, cdata, query, threads, ompl>>

AddAttachableObject(objects) ==
    \E attachable_object \in objects :
        /\ ReturnWith(addAttachableObject(Env, attachable_object), "addAttachableObject",
                      EmptyMap, <<attachable_object>>)
        /\ UNCHANGED <<last_named, cdata, query, threads, ompl>>

RemoveAttachableObject(names) ==
    \E name \in names :
        /\ ReturnWith(removeAttachableObject(Env, name), "removeAttachableObject",
                      EmptyMap, <<name>>)
        /\ UNCHANGED <<last_named, cdata, query, threads, ompl>>

AttachBody(infos) ==
    \E attached_body_info \in infos :
        \E g \in UninitializedFor(Parents(attached_bodies) \cup {attached_body_info.parent_link_name}),
           ord \in Perms(DOMAIN attached_bodies \cup {attached_body_info.object_name}) :
            /\ ReturnWith(attachBody(Env, attached_body_info, ord, g), "attachBody", EmptyMap,
                          <<attached_body_info>>)
            /\ UNCHANGED <<last_named, cdata, query, threads, ompl>>

DetachBody(names) ==
    \E name \in names :
        /\ ReturnWith(detachBody(Env, name), "detachBody", EmptyMap, <<name>>)
        /\ UNCHANGED <<last_named, cdata, query, threads, ompl>>

\* the pair a caller allows, given with the greater name first
AllowedPairs == {<<"oA", "l1">>}

\* the names and the functions isContactAllowed is called with
PolicyNames == {"l1", "oA"}

PolicyFns == {"null", "env", "never"}

\* env.getAllowedCollisionMatrixNonConst()->addAllowedCollision(a, b, reason)
AddAllowedCollision ==
    \E p \in AllowedPairs :
        /\ Return(Void([Env EXCEPT !.allowed_collision_matrix =
                            acmAddAllowedCollision(@, p[1], p[2])]),
                  "addAllowedCollision", EmptyMap)
        /\ UNCHANGED <<last_named, cdata, query, threads, ompl>>

\* env.getAllowedCollisionMatrixNonConst()->removeAllowedCollision(a, b)
RemoveAllowedCollision ==
    \E p \in AllowedPairs :
        /\ Return(Void([Env EXCEPT !.allowed_collision_matrix =
                            acmRemoveAllowedCollision(@, p[2], p[1])]),
                  "removeAllowedCollision", EmptyMap)
        /\ UNCHANGED <<last_named, cdata, query, threads, ompl>>

IsContactAllowed ==
    \E name1 \in PolicyNames, name2 \in PolicyNames, acm \in PolicyFns :
        /\ call' = [op |-> "isContactAllowed", overlay |-> EmptyMap, state |-> NoState,
                    args |-> <<name1, name2, acm>>,
                    result |-> isContactAllowed(Env, name1, name2, acm)]
        /\ UNCHANGED <<current_state, kdl_jnt_array, link_names, active_link_names,
                       attachable_objects, attached_bodies, allowed_collision_matrix,
                       discrete_manager, continuous_manager, last_named, cdata, query, threads, ompl>>

\* The live state: the three setState overloads on a mechanism that may
\* carry the attached body oA.
Next ==
    \/ SetStateMap
    \/ SetStateVector
    \/ SetStateEigen
    \/ AddAttachableObject({o \in AttachableObjects : o.name = "oA"})
    \/ AttachBody(StateAttachedBodyInfos)
    \/ DetachBody({"oA"})

Spec == Init /\ [][Next]_vars

\* Snapshots: the three getState overloads, taken from every live state
\* setState and the attachment of oA lead to.
NextSnapshot ==
    \/ GetStateMap
    \/ GetStateVector
    \/ GetStateEigen
    \/ SetStateEigen
    \/ AddAttachableObject({o \in AttachableObjects : o.name = "oA"})
    \/ AttachBody(StateAttachedBodyInfos)
    \/ DetachBody({"oA"})

SpecSnapshot == Init /\ [][NextSnapshot]_vars

\* The allowed-collision policy: the matrix and the attachments change, and
\* isContactAllowed is asked about pairs of names.
NextPolicy ==
    \/ AddAttachableObject(AttachableObjects)
    \/ AttachBody(PolicyAttachedBodyInfos)
    \/ DetachBody(ObjectNames)
    \/ AddAllowedCollision
    \/ RemoveAllowedCollision
    \/ IsContactAllowed

SpecPolicy == Init /\ [][NextPolicy]_vars

\* Attachments: objects enter the catalog, one of them under the name of a
\* link, and bodies are attached to links and to one another and detached.
AttachCatalog == {[name |-> n, shapes |-> "box"] : n \in {"oA", "oB", "cam"}}

AttachInfos == {Info_oA_l2, Info_oA_cam, Info_oB_oA, Info_cam_l1}

NextAttach ==
    \/ AddAttachableObject(AttachCatalog)
    \/ AttachBody(AttachInfos)
    \/ DetachBody(ObjectNames)

SpecAttach == Init /\ [][NextAttach]_vars

\* Poses: oA is attached to a link, oB to oA, and the joint under them moves.
PoseObjects == {o \in AttachableObjects : o.name \in {"oA", "oB"}}

PoseInfos == {Info_oA_l2, Info_oA_cam, Info_oB_oA}

PoseNameVectors == {<<"j2">>}

NextPose ==
    \/ AddAttachableObject(PoseObjects)
    \/ AttachBody(PoseInfos)
    \/ DetachBody(ObjectNames)
    \/ SetStateVectorOf(PoseNameVectors)
    \/ GetStateVectorOf(PoseNameVectors)

SpecPose == Init /\ [][NextPose]_vars

(***************************************************************************)
(* A contact query, one step at a time: contactTest starts with a fresh    *)
(* result map, visits the pairs in order, hands every contact the backend  *)
(* reports for a tested pair to processResult, and stops when the pairs    *)
(* are exhausted or the query is done.                                     *)
(***************************************************************************)
ContactTestTypes == {"FIRST", "CLOSEST", "ALL", "LIMITED"}

\* what the narrow-phase backend may report for a pair: two contacts at the
\* same penetration depth and one at a distance
Contacts ==
    {[distance |-> -1, nearest_point |-> "p"],
     [distance |-> -1, nearest_point |-> "q"],
     [distance |-> 1, nearest_point |-> "p"]}

\* The registries the queries run on, each reached by calls on a new
\* environment: the mechanism alone; an unattached object and an allowed
\* pair of links; oB attached to the moving link l1 and oA, which lists oB
\* as a touch link, attached to the static link cam.
EnvAlone == InitEnv

EnvAllowed ==
    LET e1 == addAttachableObject(InitEnv, [name |-> "oA", shapes |-> "box"]).env
    IN  [e1 EXCEPT !.allowed_collision_matrix = acmAddAllowedCollision(@, "l2", "l1")]

EnvTouching ==
    LET e1 == addAttachableObject(InitEnv, [name |-> "oB", shapes |-> "box"]).env
        e2 == addAttachableObject(e1, [name |-> "oA", shapes |-> "box"]).env
        e3 == attachBody(e2, Info_oB_plain, <<"oB">>, <<0, 0>>).env
    IN  attachBody(e3, Info_oA_cam, <<"oA", "oB">>, <<0, 0>>).env

QueryEnvs == {EnvAlone, EnvAllowed, EnvTouching}

InitQuery == \E e \in QueryEnvs : InitVars(e)

UnchangedEnv ==
    UNCHANGED <<current_state, kdl_jnt_array, link_names, active_link_names,
                attachable_objects, attached_bodies, allowed_collision_matrix,
                discrete_manager, continuous_manager, last_named, threads,
                ompl>>

ContactTestBegin ==
    \E m \in {discrete_manager, continuous_manager}, type \in ContactTestTypes :
        /\ ~query.running
        /\ cdata' = [type |-> type, done |-> FALSE, res |-> EmptyMap]
        /\ query' = [running |-> TRUE, manager |-> m,
                     pairs |-> QueryPairs(CowOrder(m), m.active, 1), pos |-> 1,
                     reports |-> 0, asserted |-> FALSE, passed |-> EmptyMap]
        /\ UNCHANGED call
        /\ UnchangedEnv

\* the backend reports one more contact for the pair being visited
ReportContact ==
    \E contact \in Contacts :
        /\ query.running
        /\ ~cdata.done
        /\ query.pos <= Len(query.pairs)
        /\ query.reports < MaxReports
        /\ LET name1 == query.pairs[query.pos][1]
               name2 == query.pairs[query.pos][2]
               key   == getObjectPairKey(name1, name2)
               r     == processResult(cdata, contact, key, Has(cdata.res, key))
           IN  /\ needsCollisionCheck(Env, query.manager, name1, name2)
               /\ cdata' = r.cdata
               /\ query' = [query EXCEPT
                      !.reports = @ + 1,
                      !.asserted = @ \/ r.asserted,
                      !.passed = Put(@, key, Append(IF Has(@, key) THEN @[key] ELSE <<>>,
                                                    contact))]
        /\ UNCHANGED call
        /\ UnchangedEnv

NextPair ==
    /\ query.running
    /\ ~cdata.done
    /\ query.pos <= Len(query.pairs)
    /\ query' = [query EXCEPT !.pos = @ + 1]
    /\ UNCHANGED <<cdata, call>>
    /\ UnchangedEnv

ContactTestReturn ==
    /\ query.running
    /\ cdata.done \/ query.pos > Len(query.pairs)
    /\ query' = [query EXCEPT !.running = FALSE]
    /\ call' = [op |-> "contactTest", overlay |-> EmptyMap, state |-> NoState,
                args |-> <<cdata.type>>, result |-> cdata.res = EmptyMap]
    /\ UNCHANGED cdata
    /\ UnchangedEnv

NextQuery ==
    \/ ContactTestBegin
    \/ ReportContact
    \/ NextPair
    \/ ContactTestReturn

SpecQuery == InitQuery /\ [][NextQuery]_vars

(***************************************************************************)
(* The planner's validity check.  isStateValid is called from several      *)
(* threads on one ChainOmplInterface; a thread takes one statement of the  *)
(* function at a time.                                                     *)
(***************************************************************************)
\* the joint configurations the planner asks about
StateValues == {<<0, 0>>, <<0, 1>>, <<1, 0>>}

ValidEnvs == {EnvAllowed, EnvTouching}

InitValid == \E e \in ValidEnvs : InitVarsWith(e, ChainOmplInterface(e))

UnchangedLive ==
    UNCHANGED <<current_state, kdl_jnt_array, link_names, active_link_names,
                attachable_objects, attached_bodies, allowed_collision_matrix,
                discrete_manager, continuous_manager>>

IsStateValidCall(t) ==
    \E s \in StateValues :
        /\ threads[t].pc = "idle"
        /\ threads' = [threads EXCEPT ![t] = [IdleThread EXCEPT !.pc = "getState", !.s = s]]
        /\ UnchangedLive
        /\ UNCHANGED <<call, last_named, cdata, query, ompl>>

\* env_state = env_->getState(joint_names_, joint_angles)
IsStateValidGetState(t) ==
    \E ord \in Perms(DOMAIN attached_bodies),
       g \in UninitializedFor(Parents(attached_bodies)) :
        LET r == getState_eigen(Env, ompl.joint_names, threads[t].s, ord, g)
        IN  /\ threads[t].pc = "getState"
            /\ SetEnv(r.env)
            /\ threads' = [threads EXCEPT ![t].env_state = r.state, ![t].pc = "clone"]
            /\ UNCHANGED <<call, last_named, cdata, query, ompl>>

\* cm = contact_manager_->clone()
IsStateValidClone(t) ==
    /\ threads[t].pc = "clone"
    /\ threads' = [threads EXCEPT ![t].cm = mgrClone(ompl.contact_manager),
                                  ![t].pc = "setTransform"]
    /\ UnchangedLive
    /\ UNCHANGED <<call, last_named, cdata, query, ompl>>

\* cm->setCollisionObjectsTransform(env_state->transforms)
IsStateValidSetTransform(t) ==
    /\ threads[t].pc = "setTransform"
    /\ threads' = [threads EXCEPT
           ![t].cm = mgrSetTransforms(@, threads[t].env_state.transforms),
           ![t].pc = "contactTest"]
    /\ UnchangedLive
    /\ UNCHANGED <<call, last_named, cdata, query, ompl>>

\* cm->contactTest(contact_map, FIRST)
IsStateValidContactTest(t) ==
    /\ threads[t].pc = "contactTest"
    /\ threads' = [threads EXCEPT
           ![t].contact_map = mgrContactTest(Env, threads[t].cm, "FIRST"),
           ![t].pc = "return"]
    /\ UnchangedLive
    /\ UNCHANGED <<call, last_named, cdata, query, ompl>>

\* return contact_map.empty()
IsStateValidReturn(t) ==
    /\ threads[t].pc = "return"
    /\ call' = [op |-> "isStateValid", overlay |-> EmptyMap,
                state |-> threads[t].env_state, args |-> threads[t].s,
                result |-> isStateValidResult(threads[t].contact_map)]
    /\ threads' = [threads EXCEPT ![t] = IdleThread]
    /\ UnchangedLive
    /\ UNCHANGED <<last_named, cdata, query, ompl>>

NextValid ==
    \E t \in Threads :
        \/ IsStateValidCall(t)
        \/ IsStateValidGetState(t)
        \/ IsStateValidClone(t)
        \/ IsStateValidSetTransform(t)
        \/ IsStateValidContactTest(t)
        \/ IsStateValidReturn(t)

SpecValid == InitValid /\ [][NextValid]_vars

(***************************************************************************)
(* Properties of the joint state.                                          *)
(***************************************************************************)
\* C1: a getState call, whatever its overload and its arguments, leaves the
\* live joint values, the live transforms, the joint array and both contact
\* managers as they were; the returned snapshot holds the value the call
\* gave to every joint of the tree it named.
C1_GetStateLeavesLiveState ==
    [][call'.op = "getState" =>
          /\ UNCHANGED <<current_state, kdl_jnt_array, discrete_manager, continuous_manager>>
          /\ \A j \in TreeJoints \cap DOMAIN call'.overlay :
                 call'.state.joints[j] = call'.overlay[j]]_vars

\* a snapshot that names an unknown joint and differs from the live state in
\* a joint value and in the transforms
C1_Witness ==
    /\ call.op = "getState"
    /\ "jx" \in DOMAIN call.overlay
    /\ \E j \in TreeJoints \cap DOMAIN call.overlay :
           /\ call.overlay[j] # current_state.joints[j]
           /\ call.state.joints[j] = call.overlay[j]
    /\ call.state.transforms # current_state.transforms

\* C2: a setState call leaves the live value and the joint-array slot of
\* every joint it does not name as they were, and every joint of the tree
\* holds the value of the last setState call that named it (0 if none did).
C2_UnnamedJointsKeepValue ==
    [][/\ call'.op = "setState" =>
              \A j \in TreeJoints \ DOMAIN call'.overlay :
                  /\ current_state'.joints[j] = current_state.joints[j]
                  /\ kdl_jnt_array'[joint_to_qnr[j]] = kdl_jnt_array[joint_to_qnr[j]]
       /\ \A j \in TreeJoints :
              /\ current_state'.joints[j] = last_named'[j]
              /\ kdl_jnt_array'[joint_to_qnr[j]] = last_named'[j]]_vars

\* a partial update: j1 was named, j2 was not and keeps a value that is not
\* its initial one
C2_Witness ==
    /\ call.op = "setState"
    /\ DOMAIN call.overlay = {"j1"}
    /\ current_state.joints["j2"] # 0
    /\ current_state.joints["j1"] = call.overlay["j1"]

\* C3: a setState call that names a joint the tree does not contain adds no
\* entry for it to the live joint map, leaves the joint array with its
\* slots, and still gives every joint of the tree it names its new value.
C3_UnknownJointRejected ==
    [][call'.op = "setState" =>
          /\ \A n \in DOMAIN call'.overlay \ TreeJoints :
                 ~Has(current_state.joints, n) => ~Has(current_state'.joints, n)
          /\ DOMAIN kdl_jnt_array' = DOMAIN kdl_jnt_array
          /\ \A j \in TreeJoints \cap DOMAIN call'.overlay :
                 current_state'.joints[j] = call'.overlay[j]]_vars

(***************************************************************************)
(* Properties of the allowed-collision policy.                             *)
(***************************************************************************)
\* C4: the environment's allowed-collision function is symmetric: it gives
\* the same answer for (a, b) and for (b, a), whatever the matrix and the
\* attachments are.
C4_DefaultFnSymmetric ==
    \A a \in Names, b \in Names :
        defaultIsContactAllowedFn(Env, a, b) = defaultIsContactAllowedFn(Env, b, a)

\* name is an attached body and other is its parent link or one of its touch links
TouchesAttached(name, other) ==
    /\ Has(attached_bodies, name)
    /\ \/ other = attached_bodies[name].parent_link_name
       \/ Contains(attached_bodies[name].touch_links, other)

\* C5: the predicate the engine applies is true exactly for identical
\* names, for a pair of the matrix, and for an attached body with its
\* parent link or one of its touch links, in either order of the arguments.
C5_PolicyCases ==
    \A a \in Names, b \in Names :
        isContactAllowed(Env, a, b, "env") <=>
            \/ a = b
            \/ getObjectPairKey(a, b) \in allowed_collision_matrix
            \/ TouchesAttached(a, b)
            \/ TouchesAttached(b, a)

\* C6: isContactAllowed answers true for a name against itself whatever
\* function it is given, and false for two different names and no function.
C6_SelfContactAllowed ==
    call.op = "isContactAllowed" =>
        /\ call.args[1] = call.args[2] => call.result
        /\ (call.args[1] # call.args[2] /\ call.args[3] = "null") => ~call.result

\* a name asked against itself with a function that answers false for it
C6_Witness ==
    /\ call.op = "isContactAllowed"
    /\ call.args[1] = call.args[2]
    /\ call.args[3] = "env"
    /\ Has(attached_bodies, call.args[1])
    /\ ~defaultIsContactAllowedFn(Env, call.args[1], call.args[2])
    /\ call.result

(***************************************************************************)
(* Contact queries                                                          *)
(***************************************************************************)
\* C7: whatever the aggregation policy and the registry, the result map of a
\* contact query never holds a pair of an object with itself, a pair with a
\* disabled object, or a pair for which the allowed-collision predicate holds.
C7_ResultExcludesGatedPairs ==
    \A k \in DOMAIN cdata.res :
        /\ k[1] # k[2]
        /\ query.manager.objects[k[1]].enabled
        /\ query.manager.objects[k[2]].enabled
        /\ ~isContactAllowed(Env, k[1], k[2], query.manager.fn)

\* C8: under FIRST, recording the first contact sets the done flag; once the
\* flag is set no pair is evaluated and nothing more is recorded; the result
\* map a query returns has at most one key, holding exactly one contact; and
\* processResult is never entered with found = true.
C8_FirstStopsAtFirstContact ==
    [][ /\ (cdata'.type = "FIRST" /\ cdata'.res # EmptyMap) => cdata'.done
        /\ (query.running /\ cdata.type = "FIRST" /\ cdata.done) =>
               /\ cdata' = cdata
               /\ query'.pos = query.pos
               /\ query'.passed = query.passed
        /\ (query.running /\ ~query'.running /\ cdata.type = "FIRST") =>
               /\ Cardinality(DOMAIN cdata'.res) <= 1
               /\ \A k \in DOMAIN cdata'.res : Len(cdata'.res[k]) = 1
        /\ cdata'.type = "FIRST" => ~query'.asserted
      ]_vars

\* a FIRST query has returned one contact and left pairs unvisited
C8_Witness ==
    /\ call.op = "contactTest"
    /\ ~query.running
    /\ cdata.type = "FIRST"
    /\ cdata.done
    /\ Cardinality(DOMAIN cdata.res) = 1
    /\ query.reports = 1
    /\ query.pos < Len(query.pairs)

\* C9: under ALL the list stored under each pair key holds exactly the
\* contacts passed to processResult for that key, as many as were passed and
\* none dropped, merged or replaced.
C9_AllKeepsEveryContact ==
    cdata.type = "ALL" =>
        /\ DOMAIN cdata.res = DOMAIN query.passed
        /\ \A k \in DOMAIN cdata.res :
               /\ Len(cdata.res[k]) = Len(query.passed[k])
               /\ cdata.res[k] = query.passed[k]

\* two contacts were passed for one pair under ALL
C9_Witness ==
    /\ cdata.type = "ALL"
    /\ \E k \in DOMAIN query.passed :
           /\ Len(query.passed[k]) = 2
           /\ Len(cdata.res[k]) = 2

\* the position of the first contact of least distance in a non-empty list
FirstMinimum(contacts) ==
    CHOOSE i \in 1..Len(contacts) :
        /\ \A j \in 1..Len(contacts) : contacts[i].distance <= contacts[j].distance
        /\ \A j \in 1..(i - 1) : contacts[j].distance > contacts[i].distance

\* C10: under CLOSEST the list stored under each pair key holds exactly one
\* contact, no farther than any contact passed for that key: the first one
\* passed, replaced only by a later one of strictly smaller distance.
C10_ClosestKeepsMinimum ==
    cdata.type = "CLOSEST" =>
        /\ DOMAIN cdata.res = DOMAIN query.passed
        /\ \A k \in DOMAIN cdata.res :
               /\ Len(cdata.res[k]) = 1
               /\ \A i \in 1..Len(query.passed[k]) :
                      cdata.res[k][1].distance <= query.passed[k][i].distance
               /\ cdata.res[k][1] = query.passed[k][FirstMinimum(query.passed[k])]

\* a second contact at the same distance was passed and the first was kept
C10_Witness ==
    /\ cdata.type = "CLOSEST"
    /\ \E k \in DOMAIN query.passed :
           /\ Len(query.passed[k]) = 2
           /\ query.passed[k][1].distance = query.passed[k][2].distance
           /\ query.passed[k][1] # query.passed[k][2]
           /\ cdata.res[k] = <<query.passed[k][1]>>

\* C11: under a policy value other than FIRST, ALL and CLOSEST, processResult
\* records nothing: a reported contact leaves the result map and the done
\* flag as they were, whether or not the pair key is already in the map.
C11_InvalidTypeRecordsNothing ==
    [][ (query.running /\ query'.running /\ cdata.type = "LIMITED") => cdata' = cdata ]_vars

(***************************************************************************)
(* The planner's validity check                                            *)
(***************************************************************************)
\* the snapshots getState may return for the joint values s
SnapshotsOf(s) ==
    {getState_eigen(Env, ompl.joint_names, s, ord, g).state :
         ord \in Perms(DOMAIN attached_bodies),
         g \in UninitializedFor(Parents(attached_bodies))}

\* C12: isStateValid(s) returns true exactly when contactTest(FIRST), run on
\* a clone of the interface's contact manager loaded with the transforms of
\* the snapshot getState(joint_names_, s), leaves the result map empty.
C12_ValidIffNoContact ==
    [][ \A t \in Threads :
            (threads[t].pc = "return" /\ threads'[t].pc = "idle") =>
                /\ threads[t].env_state \in SnapshotsOf(threads[t].s)
                /\ call'.result <=>
                       mgrContactTest(Env,
                           mgrSetTransforms(mgrClone(ompl.contact_manager),
                                            threads[t].env_state.transforms),
                           "FIRST") = EmptyMap
      ]_vars

\* one call has answered valid and one has answered invalid
C12_Witness ==
    /\ call.op = "isStateValid"
    /\ ~call.result
    /\ \E t \in Threads : threads[t].pc = "return" /\ threads[t].contact_map = EmptyMap

\* C13: in every interleaving each isStateValid call returns the value it
\* returns when run alone, a step of a call writes only that call's own
\* snapshot, clone and result map, and no step writes the interface's
\* contact manager, the environment's managers or its live state.
C13_CallsDoNotInterfere ==
    [][ /\ \A t \in Threads :
               (threads[t].pc = "return" /\ threads'[t].pc = "idle") =>
                   call'.result \in
                       {isStateValid(Env, ompl, threads[t].s, ord, g).result :
                            ord \in Perms(DOMAIN attached_bodies),
                            g \in UninitializedFor(Parents(attached_bodies))}
        /\ \A t, u \in Threads :
               (threads'[t] # threads[t] /\ u # t) => threads'[u] = threads[u]
        /\ UNCHANGED <<current_state, kdl_jnt_array, discrete_manager,
                       continuous_manager, ompl>>
      ]_vars

\* two calls with different answers are in flight, both past their getState
C13_Witness ==
    \E t, u \in Threads :
        /\ threads[t].pc = "return"
        /\ threads[u].pc = "return"
        /\ threads[t].contact_map = EmptyMap
        /\ threads[u].contact_map # EmptyMap

(***************************************************************************)
(* Attachments                                                             *)
(***************************************************************************)
\* attachBody rejects the object: it is attached already, it is not in the
\* catalog, or it has the name of an existing link
AttachRejected(name) ==
    \/ Has(attached_bodies, name)
    \/ ~Has(attachable_objects, name)
    \/ Contains(link_names, name)

\* C14: attachBody of an object that is already attached, that is not in the
\* catalog, or that has the name of an existing link returns normally and
\* leaves the attached-body table, the link names, the active links, the
\* live transforms and both managers as they were.
C14_RejectedAttachIsNoOp ==
    [][ (call'.op = "attachBody" /\ AttachRejected(call'.args[1].object_name)) =>
            UNCHANGED <<attached_bodies, link_names, active_link_names, current_state,
                        discrete_manager, continuous_manager>>
      ]_vars

\* the catalog object named cam was refused while oA is attached
C14_Witness ==
    /\ call.op = "attachBody"
    /\ call.args[1].object_name = "cam"
    /\ Has(attachable_objects, "cam")
    /\ ~Has(attached_bodies, "cam")
    /\ Has(attached_bodies, "oA")

\* the attachments tried from every state: parents that move, that stand
\* still, that are attached bodies and that do not exist
RoundTripInfos ==
    {Info_oA_l2, Info_oA_cam, Info_oB_oA, Info_oB_l1, Info_oB_plain, Info_oB_ghost}

\* what attach and detach are to restore in a manager
ManagerFlags(m) ==
    [active |-> m.active, enabled |-> [n \in DOMAIN m.objects |-> m.objects[n].enabled]]

AttachedFollowParents(transforms) ==
    \A n \in DOMAIN attached_bodies :
        /\ Has(transforms, n)
        /\ Has(transforms, attached_bodies[n].parent_link_name)
        /\ transforms[n] = Compose(transforms[attached_bodies[n].parent_link_name],
                                   attached_bodies[n].transform)

\* C16: after every setState, after every attachBody that attaches, and in
\* every snapshot getState returns, each attached body's transform is its
\* parent's transform in that state composed with the attachment offset, in
\* whatever order the bodies were attached and also under an attached parent.
C16_AttachedFollowParent ==
    [][ /\ call'.op = "setState" => AttachedFollowParents(current_state.transforms)'
        /\ (call'.op = "attachBody" /\ attached_bodies' # attached_bodies) =>
               AttachedFollowParents(current_state.transforms)'
        /\ call'.op = "getState" => AttachedFollowParents(call.state.transforms)'
      ]_vars

\* the parent of a segment in the tree
TreeParent(s) == CHOOSE p \in SegmentNames : Contains(Segments[p].children, s)

\* C17: in the live transforms every segment has an entry, the root's is the
\* root frame composed with its pose at its joint value, every other one is
\* its tree parent's transform composed with its pose at its joint value,
\* and the entries of the segments are those computed afresh from the joint
\* array alone.
C17_TreeTransforms ==
    /\ \A s \in SegmentNames :
           /\ Has(current_state.transforms, s)
           /\ current_state.transforms[s] =
                  Compose(IF s = RootSegment THEN Identity
                          ELSE current_state.transforms[TreeParent(s)],
                          SegmentPose(s, kdl_jnt_array[Segments[s].q_nr]))
    /\ LET fresh == calculateTransformsHelper(EmptyMap, kdl_jnt_array, RootSegment, Identity)
       IN  /\ DOMAIN fresh = SegmentNames
           /\ \A s \in SegmentNames : current_state.transforms[s] = fresh[s]

\* both joints have moved and the slide l2 has left its initial place
C17_Witness ==
    /\ call.op = "setState"
    /\ kdl_jnt_array[joint_to_qnr["j1"]] = 1
    /\ kdl_jnt_array[joint_to_qnr["j2"]] = 1
    /\ current_state.transforms["l2"] = <<-1, -3>>

\* the registry holds the live transform of every name it was given one for
RegistryFollowsLive(m) ==
    \A n \in DOMAIN current_state.transforms :
        (Has(m.objects, n) /\ m.objects[n].pushed) =>
            /\ m.objects[n].tf1 = current_state.transforms[n]
            /\ m.objects[n].tf2 = current_state.transforms[n]

\* C18: after every setState, attachBody and detachBody, for every name of
\* the live transforms the transform last pushed to the discrete and to the
\* continuous manager for that name is the live transform of that name.
C18_RegistryNeverLags ==
    call.op \in {"setState", "attachBody", "detachBody"} =>
        /\ RegistryFollowsLive(discrete_manager)
        /\ RegistryFollowsLive(continuous_manager)

(***************************************************************************)
(* The catalog of attachable objects: objects of two shapes enter it under *)
(* three names, one of them the name of a link, and leave it again.        *)
(***************************************************************************)
CatalogNames == {"oA", "oB", "cam"}

CatalogShapes == {"box", "ball"}

CatalogObjects == {[name |-> n, shapes |-> s] : n \in CatalogNames, s \in CatalogShapes}

ClearAttachableObjects ==
    /\ Return(clearAttachableObjects(Env), "clearAttachableObjects", EmptyMap)
    /\ UNCHANGED <<last_named, cdata, query, threads, ompl>>

NextCatalog ==
    \/ AddAttachableObject(CatalogObjects)
    \/ RemoveAttachableObject(CatalogNames)
    \/ ClearAttachableObjects

SpecCatalog == Init /\ [][NextCatalog]_vars

\* how often a name is listed
Count(s, x) == Len(SelectSeq(s, LAMBDA y : y = x))

\* the manager lists every object it holds once, and nothing else
OnePerName(m) ==
    /\ \A n \in DOMAIN m.objects : Count(m.order, n) = 1
    /\ \A i \in 1 .. Len(m.order) : m.order[i] \in DOMAIN m.objects

\* the environment holds the object once, in the catalog and in each manager
HoldsOnce(e, o) ==
    /\ Has(e.attachable_objects, o.name) /\ e.attachable_objects[o.name] = o
    /\ \A m \in {e.discrete_manager, e.continuous_manager} :
        /\ OnePerName(m)
        /\ Has(m.objects, o.name) /\ m.objects[o.name].shapes = o.shapes

\* C19: after any sequence of addAttachableObject, removeAttachableObject and
\* clearAttachableObjects the catalog and each contact manager hold at most one
\* object per name, every object of the catalog is in each manager once, and
\* addAttachableObject under a name the catalog knows leaves one entry under
\* that name, holding the new object's shapes.
C19_OneObjectPerName ==
    /\ OnePerName(discrete_manager) /\ OnePerName(continuous_manager)
    /\ \A n \in DOMAIN attachable_objects :
        /\ attachable_objects[n].name = n
        /\ Count(discrete_manager.order, n) = 1
        /\ Count(continuous_manager.order, n) = 1
    /\ call.op = "addAttachableObject" => HoldsOnce(Env, call.args[1])
    /\ \A o \in CatalogObjects :
        Has(attachable_objects, o.name) => HoldsOnce(addAttachableObject(Env, o).env, o)

\* a ball was added under the name oA, which the catalog, holding oB as well,
\* now keeps as a ball; adding the box again replaces it
C19_Witness ==
    /\ call.op = "addAttachableObject"
    /\ call.args = <<[name |-> "oA", shapes |-> "ball"]>>
    /\ DOMAIN attachable_objects = {"oA", "oB"}
    /\ discrete_manager.objects["oA"].shapes = "ball"
    /\ attachable_objects["oB"].shapes = "box"
    /\ Count(discrete_manager.order, "oA") = 1

(***************************************************************************)
(* Lookups by name.  What a lookup returns is recorded as a record: kind   *)
(* tells a value from the empty results, value carries what was found.     *)
(***************************************************************************)
\* the manipulators the constructor registered: the chain of the mechanism
manipulators == [arm |-> [joint_names |-> ManipJointNames]]

Found(v) == [kind |-> "value", value |-> v]

Nothing(kind) == [kind |-> kind, value |-> <<>>]

\* what dereferencing the end iterator of attached_bodies_ can do: the process
\* stops, or the caller holds a reference to memory that is no AttachedBodyInfo
EndDereference == {"crash", "garbage"}

\* getAttachedBody that hands out nothing for a name that is not attached
getAttachedBody_checked(e, name, undefined) ==
    IF Has(e.attached_bodies, name) THEN Found(e.attached_bodies[name])
    ELSE Nothing("null")

\* getAttachedBody(name): body->second is read whether or not the name was found
getAttachedBody(e, name, undefined) ==
    IF Has(e.attached_bodies, name) THEN Found(e.attached_bodies[name])
    ELSE Nothing(undefined)

\* getManipulator(manipulator_name)
getManipulator(manipulator_name) ==
    IF Has(manipulators, manipulator_name) THEN Found(manipulators[manipulator_name])
    ELSE Nothing("null")

\* getCurrentJointValues(manipulator_name)
getCurrentJointValues(e, manipulator_name) ==
    IF Has(manipulators, manipulator_name)
    THEN LET joint_names == manipulators[manipulator_name].joint_names
         IN  Found([j \in 1 .. Len(joint_names) |-> e.current_state.joints[joint_names[j]]])
    ELSE Nothing("empty")

\* LinkUpdater::getLinkTransforms(link_name, ...): the visual and the collision
\* pose are both the link's transform in the state the updater holds
getLinkTransforms(state, link_name) ==
    IF ~Has(state.transforms, link_name) THEN Nothing("false")
    ELSE Found([visual |-> state.transforms[link_name],
                collision |-> state.transforms[link_name]])

\* the names asked for: attached or not, a link or not, a manipulator or not
LookupBodyNames == {"oA", "oB"}

LookupLinkNames == {"l2", "oA", "ghost"}

LookupManipulatorNames == {"arm", "ghost"}

LookupInfos == {Info_oA_l2, Info_oB_oA}

\* a process that dereferenced the end iterator and stopped takes no more steps
Running == ~(call.op = "getAttachedBody" /\ call.result.kind = "crash")

Lookup(op, name, result) ==
    /\ call' = [op |-> op, overlay |-> EmptyMap, state |-> NoState,
                args |-> <<name>>, result |-> result]
    /\ UNCHANGED <<current_state, kdl_jnt_array, link_names, active_link_names,
                   attachable_objects, attached_bodies, allowed_collision_matrix,
                   discrete_manager, continuous_manager, last_named, cdata, query,
                   threads, ompl>>

GetAttachedBody ==
    \E name \in LookupBodyNames, undefined \in EndDereference :
        /\ Running
        /\ Lookup("getAttachedBody", name, getAttachedBody(Env, name, undefined))

GetManipulator ==
    \E manipulator_name \in LookupManipulatorNames :
        /\ Running
        /\ Lookup("getManipulator", manipulator_name, getManipulator(manipulator_name))

GetCurrentJointValues ==
    \E manipulator_name \in LookupManipulatorNames :
        /\ Running
        /\ Lookup("getCurrentJointValues", manipulator_name,
                  getCurrentJointValues(Env, manipulator_name))

GetLinkTransforms ==
    \E link_name \in LookupLinkNames :
        /\ Running
        /\ Lookup("getLinkTransforms", link_name,
                  getLinkTransforms(current_state, link_name))

LookupAddAttachableObject == Running /\ AddAttachableObject(PoseObjects)

LookupAttachBody == Running /\ AttachBody(LookupInfos)

LookupDetachBody == Running /\ DetachBody(ObjectNames)

LookupSetState == Running /\ SetStateVectorOf(PoseNameVectors)

NextLookup ==
    \/ LookupAddAttachableObject
    \/ LookupAttachBody
    \/ LookupDetachBody
    \/ LookupSetState
    \/ GetAttachedBody
    \/ GetManipulator
    \/ GetCurrentJointValues
    \/ GetLinkTransforms

SpecLookup == Init /\ [][NextLookup]_vars

\* the lookup just made asked for something that does not exist
LookupOfMissing ==
    \/ call.op = "getAttachedBody" /\ ~Has(attached_bodies, call.args[1])
    \/ call.op \in {"getManipulator", "getCurrentJointValues"}
          /\ ~Has(manipulators, call.args[1])
    \/ call.op = "getLinkTransforms" /\ ~Has(current_state.transforms, call.args[1])

\* C20: a lookup of something that does not exist (getAttachedBody of a name
\* that is not attached, getManipulator and getCurrentJointValues of an unknown
\* manipulator, getLinkTransforms of an unknown link) returns an empty, null or
\* false result and never reaches a crash or an undefined result.  The lookups
\* are const members: the step that makes one leaves the environment as it was.
C20_MissingLookupsReturnNothing ==
    LookupOfMissing => call.result.kind \in {"null", "empty", "false"}

(***************************************************************************)
(* createConvexHull.  The hull computer hands back a half-edge mesh: the   *)
(* hull's vertices, the edges, each knowing its source and target vertex   *)
(* and the next edge of its face, and for every face the index of one of   *)
(* its edges.  Indices count from 0 as in the code.                        *)
(***************************************************************************)
\* the place of vertex i of a hull
Point(i) == <<i, (i * i) % 3, 1>>

\* the edges of one face whose boundary visits the vertices of cycle in order;
\* base is the index of the face's first edge
FaceEdges(cycle, base) ==
    [i \in 1 .. Len(cycle) |->
        [source |-> cycle[i], target |-> cycle[(i % Len(cycle)) + 1],
         next |-> base + (i % Len(cycle))]]

RECURSIVE MeshEdges(_, _)
MeshEdges(cycles, base) ==
    IF cycles = <<>> THEN <<>>
    ELSE FaceEdges(Head(cycles), base) \o MeshEdges(Tail(cycles), base + Len(Head(cycles)))

RECURSIVE MeshFaces(_, _, _)
MeshFaces(cycles, starts, base) ==
    IF cycles = <<>> THEN <<>>
    ELSE <<base + Head(starts)>>
            \o MeshFaces(Tail(cycles), Tail(starts), base + Len(Head(cycles)))

\* the computer's output for a hull of nverts vertices with the given faces,
\* face i being entered at edge starts[i] of its boundary
HullMesh(nverts, cycles, starts) ==
    [vertices |-> [i \in 1 .. nverts |-> Point(i - 1)],
     edges |-> MeshEdges(cycles, 0),
     faces |-> MeshFaces(cycles, starts, 0)]

Tetrahedron ==
    HullMesh(4, << <<0, 1, 2>>, <<0, 3, 1>>, <<1, 3, 2>>, <<0, 2, 3>> >>, <<0, 0, 0, 0>>)

TetrahedronTurned ==
    HullMesh(4, << <<0, 1, 2>>, <<0, 3, 1>>, <<1, 3, 2>>, <<0, 2, 3>> >>, <<1, 2, 0, 1>>)

Pyramid ==
    HullMesh(5, << <<0, 1, 2, 3>>, <<0, 4, 1>>, <<1, 4, 2>>, <<2, 4, 3>>, <<3, 4, 0>> >>,
             <<2, 0, 1, 0, 2>>)

Prism ==
    HullMesh(6, << <<0, 1, 2>>, <<3, 5, 4>>, <<0, 3, 4, 1>>, <<1, 4, 5, 2>>, <<2, 5, 3, 0>> >>,
             <<0, 1, 3, 0, 2>>)

PentagonPyramid ==
    HullMesh(6, << <<0, 1, 2, 3, 4>>, <<0, 5, 1>>, <<1, 5, 2>>, <<2, 5, 3>>, <<3, 5, 4>>,
                   <<4, 5, 0>> >>, <<3, 0, 0, 0, 0, 0>>)

Cube ==
    HullMesh(8, << <<0, 1, 2, 3>>, <<4, 7, 6, 5>>, <<0, 4, 5, 1>>, <<1, 5, 6, 2>>,
                   <<2, 6, 7, 3>>, <<3, 7, 4, 0>> >>, <<0, 1, 2, 3, 0, 1>>)

HullMeshes == {Tetrahedron, TetrahedronTurned, Pyramid, Prism, PentagonPyramid, Cube}

\* compute() returns the shrinkage, 0 without shrinking, and a negative value
\* when it fails
ComputeResults == {-1, 0}

\* what the two output containers may hold when the call is made
PriorVertices == {<<>>, <<Point(7)>>}

PriorFaces == {<<>>, <<3, 0, 1, 2>>, <<1, 7>>}

\* the points a caller hands in
HullInputs == {<<Point(0), Point(1), Point(2), Point(3)>>, <<Point(0), Point(1)>>}

EdgeAt(conv, e) == conv.edges[e + 1]

\* the walk that takes the first three vertices of a face for all of them
RECURSIVE walkFace_triangle(_, _, _, _)
walkFace_triangle(conv, edge, a, face) == face

\* while (c != a) { face.push_back(c); edge = edge->getNextEdgeOfFace(); ... }
RECURSIVE walkFace(_, _, _, _)
walkFace(conv, edge, a, face) ==
    LET c == EdgeAt(conv, edge).target
    IN  IF c = a THEN face
        ELSE walkFace(conv, EdgeAt(conv, edge).next, a, Append(face, c))

\* the body of the loop over the faces: the vertices around face i
hullFace(conv, i) ==
    LET sourceEdge == conv.faces[i + 1]
        a    == EdgeAt(conv, sourceEdge).source
        b    == EdgeAt(conv, sourceEdge).target
        edge == EdgeAt(conv, sourceEdge).next
        c    == EdgeAt(conv, edge).target
    IN  walkFace(conv, EdgeAt(conv, edge).next, a, <<a, b, c>>)

RECURSIVE hullFaces(_, _, _)
hullFaces(conv, i, faces) ==
    IF i >= Len(conv.faces) THEN faces
    ELSE LET face == hullFace(conv, i)
         IN  hullFaces(conv, i + 1, faces \o <<Len(face)>> \o face)

\* createConvexHull that looks at the result of compute() before it clears
createConvexHull_clearsLate(vertices, faces, input, val, conv) ==
    IF val < 0 THEN [value |-> -1, vertices |-> vertices, faces |-> faces]
    ELSE [value |-> Len(conv.faces), vertices |-> conv.vertices,
          faces |-> hullFaces(conv, 0, <<>>)]

\* createConvexHull(vertices, faces, input, shrink, shrinkClamp); val and conv
\* are what compute() made of the input
createConvexHull(vertices, faces, input, val, conv) ==
    LET vertices0 == <<>>
        faces0    == <<>>
    IN  IF val < 0 THEN [value |-> -1, vertices |-> vertices0, faces |-> faces0]
        ELSE [value |-> Len(conv.faces),
              vertices |-> vertices0 \o conv.vertices,
              faces |-> hullFaces(conv, 0, faces0)]

CreateConvexHull ==
    \E vertices \in PriorVertices, faces \in PriorFaces, input \in HullInputs,
       val \in ComputeResults, conv \in HullMeshes :
        /\ call' = [op |-> "createConvexHull", overlay |-> EmptyMap, state |-> NoState,
                    args |-> <<vertices, faces, input, val, conv>>,
                    result |-> createConvexHull(vertices, faces, input, val, conv)]
        /\ UNCHANGED <<current_state, kdl_jnt_array, link_names, active_link_names,
                       attachable_objects, attached_bodies, allowed_collision_matrix,
                       discrete_manager, continuous_manager, last_named, cdata, query,
                       threads, ompl>>

NextHull == CreateConvexHull

SpecHull == Init /\ [][NextHull]_vars

\* C21: when the hull computer reports a negative result, createConvexHull
\* returns a negative face count and both output containers, vertices and
\* faces, are empty on return, whatever they held when the call was made.
C21_FailedHullIsEmpty ==
    (call.op = "createConvexHull" /\ call.args[4] < 0) =>
        /\ call.result.value < 0
        /\ call.result.vertices = <<>>
        /\ call.result.faces = <<>>

\* the computer failed on a call that was handed containers that held something
C21_Witness ==
    /\ call.op = "createConvexHull"
    /\ call.args[4] < 0
    /\ call.args[1] # <<>> /\ call.args[2] # <<>>
    /\ call.result.value = -1

\* the edge reached from e by n steps along the face
RECURSIVE NextEdgeOfFace(_, _, _)
NextEdgeOfFace(conv, e, n) ==
    IF n = 0 THEN e ELSE NextEdgeOfFace(conv, EdgeAt(conv, e).next, n - 1)

\* the length of the boundary that starts at edge e
BoundaryLength(conv, e) ==
    CHOOSE k \in 1 .. Len(conv.edges) :
        /\ NextEdgeOfFace(conv, e, k) = e
        /\ \A n \in 1 .. k - 1 : NextEdgeOfFace(conv, e, n) # e

\* the boundary of the face entered at edge e: its vertices in next-edge order
Boundary(conv, e) ==
    [j \in 1 .. BoundaryLength(conv, e) |-> EdgeAt(conv, NextEdgeOfFace(conv, e, j - 1)).source]

RECURSIVE ExpectedFaces(_, _)
ExpectedFaces(conv, i) ==
    IF i > Len(conv.faces) THEN <<>>
    ELSE LET b == Boundary(conv, conv.faces[i])
         IN  <<Len(b)>> \o b \o ExpectedFaces(conv, i + 1)

\* C22: for a half-edge mesh in which every face boundary is a simple cycle
\* of k >= 3 edges, the walk ends for every face and appends, face by face,
\* the count k and then the k vertex indices of the boundary in next-edge
\* order from the source vertex of the face's starting edge; the value
\* returned is the number of faces; a tetrahedron gives 4 faces of 3 indices
\* and all 4 vertices.
C22_FacesFollowBoundaries ==
    (call.op = "createConvexHull" /\ call.args[4] >= 0) =>
        LET conv == call.args[5]
            r    == call.result
        IN  /\ r.faces = ExpectedFaces(conv, 1)
            /\ r.value = Len(conv.faces)
            /\ conv \in {Tetrahedron, TetrahedronTurned} =>
                /\ r.value = 4
                /\ Len(r.faces) = 16
                /\ \A f \in 0 .. 3 : r.faces[4 * f + 1] = 3
                /\ Len(r.vertices) = 4
                /\ {r.faces[4 * f + j + 1] : f \in 0 .. 3, j \in 1 .. 3} = 0 .. 3

\* a hull with a five-sided face entered in the middle of its boundary
C22_Witness ==
    /\ call.op = "createConvexHull"
    /\ call.args[4] >= 0
    /\ call.args[5] = PentagonPyramid
    /\ SubSeq(call.result.faces, 1, 6) = <<5, 3, 4, 0, 1, 2>>
    /\ call.result.value = 6

\* the tetrahedron gave four triangles
C22_TetrahedronWitness ==
    /\ call.op = "createConvexHull"
    /\ call.args[4] >= 0
    /\ call.args[5] = Tetrahedron
    /\ call.result.faces = <<3, 0, 1, 2, 3, 0, 3, 1, 3, 1, 3, 2, 3, 0, 2, 3>>

\* C23: getObjectPairKey does not depend on the order of its arguments and
\* is canonical: for all names a and b, getObjectPairKey(a, b) equals
\* getObjectPairKey(b, a), its first component is lexicographically less than
\* or equal to its second, and its two components are exactly a and b; so
\* every key the allowed-collision matrix holds has its smaller name first.
C23_PairKeyCanonical ==
    /\ \A a \in Names, b \in Names :
        LET key == getObjectPairKey(a, b)
        IN  /\ key = getObjectPairKey(b, a)
            /\ ~StrLess(key[2], key[1])
            /\ key \in {<<a, b>>, <<b, a>>}
    /\ \A key \in allowed_collision_matrix : ~StrLess(key[2], key[1])

\* the pair was given with the greater name first and is kept the other way
C23_Witness ==
    /\ call.op = "addAllowedCollision"
    /\ \E p \in AllowedPairs :
        /\ StrLess(p[2], p[1])
        /\ <<p[2], p[1]>> \in allowed_collision_matrix
        /\ p \notin allowed_collision_matrix

\* the last call was setState(names, Eigen vector)
EigenSetState ==
    call.op = "setState" /\ call.args = <<"Eigen::VectorXd">>

\* C24: in setState(names, Eigen vector) the continuous manager receives a
\* two-pose update with start = end = the new live transform for exactly the
\* names of the active-link list and a single-pose update for every other
\* name of the live transforms; a name that is not in the active-link list
\* never receives a two-pose update.
C24_SweptUpdatesForActiveOnly ==
    EigenSetState =>
        \A n \in DOMAIN current_state.transforms :
            Has(continuous_manager.objects, n) =>
                LET o == continuous_manager.objects[n]
                IN  /\ o.poses = IF Contains(active_link_names, n) THEN 2 ELSE 1
                    /\ o.tf1 = current_state.transforms[n]
                    /\ o.tf2 = current_state.transforms[n]

\* the Eigen overload moved l2 while it carried oA: oA and l2 were swept,
\* the static links were not
C24_Witness ==
    /\ EigenSetState
    /\ Has(attached_bodies, "oA")
    /\ current_state.joints["j2"] = 1
    /\ continuous_manager.objects["oA"].poses = 2
    /\ continuous_manager.objects["l2"].poses = 2
    /\ continuous_manager.objects["cam"].poses = 1

(***************************************************************************)
(* Link trees.  Every tree over the four links with base as its root, each *)
(* joint fixed or revolute; child_links lists the children in name order.  *)
(***************************************************************************)
TreeLinkNames == {"cam", "l1", "l2"}

\* the link has the root above it
RECURSIVE UnderRoot(_, _, _)
UnderRoot(parent, link, steps) ==
    \/ parent[link] = RootSegment
    \/ steps > 0 /\ parent[link] # RootSegment /\ UnderRoot(parent, parent[link], steps - 1)

UrdfParents ==
    {parent \in [TreeLinkNames -> TreeLinkNames \cup {RootSegment}] :
        \A l \in TreeLinkNames : UnderRoot(parent, l, Cardinality(TreeLinkNames))}

UrdfOf(parent, type) ==
    [l \in TreeLinkNames \cup {RootSegment} |->
        [type |-> IF l = RootSegment THEN "None" ELSE type[l],
         children |-> SelectSeq(UrdfLinks, LAMBDA c : c \in TreeLinkNames /\ parent[c] = l)]]

UrdfTrees ==
    {UrdfOf(parent, type) : parent \in UrdfParents,
                            type \in [TreeLinkNames -> {"None", "RotAxis"}]}

GetActiveLinkNames ==
    \E urdf \in UrdfTrees :
        /\ call' = [op |-> "getActiveLinkNamesRecursive", overlay |-> EmptyMap,
                    state |-> NoState, args |-> <<urdf>>,
                    result |-> getActiveLinkNamesOf(urdf, <<>>, RootSegment, FALSE)]
        /\ UNCHANGED <<current_state, kdl_jnt_array, link_names, active_link_names,
                       attachable_objects, attached_bodies, allowed_collision_matrix,
                       discrete_manager, continuous_manager, last_named, cdata, query,
                       threads, ompl>>

NextTree == GetActiveLinkNames

SpecTree == Init /\ [][NextTree]_vars

\* the links above a link, the root included
UrdfParent(urdf, link) == CHOOSE l \in DOMAIN urdf : Contains(urdf[l].children, link)

RECURSIVE Ancestors(_, _)
Ancestors(urdf, link) ==
    IF link = RootSegment THEN {}
    ELSE {UrdfParent(urdf, link)} \cup Ancestors(urdf, UrdfParent(urdf, link))

\* a joint that is not fixed lies on the path from the root to the link
MovesWithJoint(urdf, link) ==
    \E l \in (Ancestors(urdf, link) \cup {link}) \ {RootSegment} : urdf[l].type # "None"

\* C25: getActiveLinkNamesRecursive called on the root with active = false
\* gives exactly the links that have a joint that is not fixed on the path
\* from the root to the link: the root is never among them, every descendant
\* of a link reached through such a joint is, each link is listed once, and a
\* link is listed before its descendants.
C25_ActiveLinksAreMovedLinks ==
    call.op = "getActiveLinkNamesRecursive" =>
        LET urdf   == call.args[1]
            active == call.result
        IN  /\ SeqToSet(active) = {l \in DOMAIN urdf : MovesWithJoint(urdf, l)}
            /\ ~Contains(active, RootSegment)
            /\ \A l \in DOMAIN urdf :
                (\E a \in Ancestors(urdf, l) : Contains(active, a)) => Contains(active, l)
            /\ \A i, j \in 1 .. Len(active) : i # j => active[i] # active[j]
            /\ \A i, j \in 1 .. Len(active) :
                active[i] \in Ancestors(urdf, active[j]) => i < j

\* a chain base - cam - l1 - l2 whose only moving joint is that of l1: l1 and
\* l2 below it are active, cam above it is not
C25_Witness ==
    /\ call.op = "getActiveLinkNamesRecursive"
    /\ call.args[1]["base"].children = <<"cam">>
    /\ call.args[1]["cam"].children = <<"l1">>
    /\ call.args[1]["l1"].children = <<"l2">>
    /\ call.args[1]["l1"].type = "RotAxis"
    /\ call.args[1]["cam"].type = "None"
    /\ call.args[1]["l2"].type = "None"
    /\ call.result = <<"l1", "l2">>

ClearAttachedBodies ==
    /\ Return(clearAttachedBodies(Env), "clearAttachedBodies", EmptyMap)
    /\ UNCHANGED <<last_named, cdata, query, threads, ompl>>

\* The active set: bodies are attached to moving links, to static links and
\* to one another, detached one by one and cleared all at once.
NextActive ==
    \/ AddAttachableObject(AttachCatalog)
    \/ AttachBody(AttachInfos)
    \/ DetachBody(ObjectNames)
    \/ ClearAttachedBodies

SpecActive == Init /\ [][NextActive]_vars

\* C26: after a successful attachBody the attached body's name is in the
\* link-name list, and it is in the active-link list if and only if its
\* parent link was in the active-link list at that moment; both managers are
\* then given the active-link list, so each manager's active set equals the
\* environment's active-link list after every attachBody, detachBody and
\* clearAttachedBodies.
C26_ActiveSetFollowsParent ==
    [][ /\ (call'.op = "attachBody" /\ ~AttachRejected(call'.args[1].object_name)) =>
            /\ Contains(link_names', call'.args[1].object_name)
            /\ Contains(active_link_names', call'.args[1].object_name)
                   <=> Contains(active_link_names, call'.args[1].parent_link_name)
        /\ call'.op \in {"attachBody", "detachBody", "clearAttachedBodies"} =>
            /\ discrete_manager'.active = active_link_names'
            /\ continuous_manager'.active = active_link_names'
      ]_vars

\* oA hangs on the static link cam and is not active; oB was attached to oA
\* and is not active either
C26_Witness ==
    /\ call.op = "attachBody"
    /\ call.args = <<Info_oB_oA>>
    /\ Has(attached_bodies, "oA") /\ attached_bodies["oA"].parent_link_name = "cam"
    /\ Has(attached_bodies, "oB")
    /\ ~Contains(active_link_names, "oA")
    /\ ~Contains(active_link_names, "oB")
    /\ Contains(link_names, "oB")
    /\ discrete_manager.active = active_link_names

\* the attached bodies were cleared while an active one was attached
C26_ClearedWitness ==
    /\ call.op = "clearAttachedBodies"
    /\ attached_bodies = EmptyMap
    /\ Has(attachable_objects, "oA")
    /\ continuous_manager.active = active_link_names
    /\ ~Contains(link_names, "oA")

(***************************************************************************)
(* processTesseractStateMsg.  A TesseractState message carries a joint     *)
(* state, attachable-object entries, attached-body entries and allowed     *)
(* collisions; every entry of the two middle lists names an operation.  A  *)
(* pose travels as a position and an orientation.  The known object        *)
(* colours the message also clears are not part of the environment here.   *)
(***************************************************************************)
\* tf::poseMsgToEigen
poseMsgToEigen(pose) == <<pose.orientation, pose.position>>

\* attachableObjectMsgToAttachableObject
attachableObjectMsgToAttachableObject(ao_msg) ==
    [name |-> ao_msg.name, shapes |-> ao_msg.shapes]

\* attachedBodyInfoMsgToAttachedBodyInfo
attachedBodyInfoMsgToAttachedBodyInfo(body) ==
    [object_name |-> body.object_name, parent_link_name |-> body.parent_link_name,
     transform |-> poseMsgToEigen(body.transform), touch_links |-> body.touch_links]

\* isMsgEmpty(sensor_msgs::JointState)
isMsgEmpty(msg) == msg.name = <<>> /\ msg.position = <<>>

\* the attached bodies in the order in which this build iterates them
IterationOrder(ord, attached) == SelectSeq(ord, LAMBDA n : n \in DOMAIN attached)

\* processAttachableObjectMsg(env, ao_msg)
processAttachableObjectMsg(e, ao_msg) ==
    IF ao_msg.operation = "REMOVE"
    THEN [env |-> removeAttachableObject(e, ao_msg.name).env, result |-> TRUE]
    ELSE IF ao_msg.operation = "ADD"
    THEN [env |-> addAttachableObject(e, attachableObjectMsgToAttachableObject(ao_msg)).env,
          result |-> TRUE]
    ELSE [env |-> e, result |-> FALSE]

\* processAttachedBodyInfoMsg(env, ab_msg): only MOVE is answered with false
processAttachedBodyInfoMsg(e, ab_msg, ord, g) ==
    IF ab_msg.operation = "REMOVE"
    THEN [env |-> detachBody(e, ab_msg.object_name).env, result |-> TRUE]
    ELSE IF ab_msg.operation = "ADD"
    THEN LET ab_info == attachedBodyInfoMsgToAttachedBodyInfo(ab_msg)
             after   == Put(e.attached_bodies, ab_info.object_name, ab_info)
         IN  [env |-> attachBody(e, ab_info, IterationOrder(ord, after), g).env,
              result |-> TRUE]
    ELSE IF ab_msg.operation = "MOVE"
    THEN [env |-> e, result |-> FALSE]
    ELSE [env |-> e, result |-> TRUE]

\* joints[joint_state_msg.name[i]] = joint_state_msg.position[i]
RECURSIVE jointStateMap(_, _, _)
jointStateMap(joints, name, position) ==
    IF name = <<>> THEN joints
    ELSE jointStateMap(Put(joints, Head(name), Head(position)), Tail(name), Tail(position))

\* processJointStateMsg(env, joint_state_msg)
processJointStateMsg(e, joint_state_msg, ord, g) ==
    IF ~isMsgEmpty(joint_state_msg)
    THEN [env |-> setState_map(e, jointStateMap(EmptyMap, joint_state_msg.name,
                                                joint_state_msg.position),
                               IterationOrder(ord, e.attached_bodies), g).env,
          result |-> TRUE]
    ELSE [env |-> e, result |-> FALSE]

\* for (ao_msg : state_msg.attachable_objects) if (!process...) success = false;
RECURSIVE attachableObjectsLoop(_, _)
attachableObjectsLoop(r, msgs) ==
    IF msgs = <<>> THEN r
    ELSE LET p == processAttachableObjectMsg(r.env, Head(msgs))
         IN  attachableObjectsLoop([env |-> p.env, result |-> r.result /\ p.result],
                                   Tail(msgs))

\* for (ab_msg : state_msg.attached_bodies) if (!process...) success = false;
RECURSIVE attachedBodiesLoop(_, _, _, _)
attachedBodiesLoop(r, msgs, ord, g) ==
    IF msgs = <<>> THEN r
    ELSE LET p == processAttachedBodyInfoMsg(r.env, Head(msgs), ord, g)
         IN  attachedBodiesLoop([env |-> p.env, result |-> r.result /\ p.result],
                                Tail(msgs), ord, g)

\* for (ce_msg : state_msg.allowed_collisions) acm->addAllowedCollision(...)
RECURSIVE allowedCollisionsLoop(_, _)
allowedCollisionsLoop(e, msgs) ==
    IF msgs = <<>> THEN e
    ELSE allowedCollisionsLoop(
             [e EXCEPT !.allowed_collision_matrix =
                           acmAddAllowedCollision(@, Head(msgs).link_1, Head(msgs).link_2)],
             Tail(msgs))

\* processTesseractStateMsg(env, state_msg)
processTesseractStateMsg(e, state_msg, ord, g) ==
    LET e1 == IF ~state_msg.is_diff
              THEN [clearAttachableObjects(clearAttachedBodies(e).env).env
                        EXCEPT !.allowed_collision_matrix = {}]
              ELSE e
        e2 == processJointStateMsg(e1, state_msg.joint_state, ord, g).env
        r3 == attachableObjectsLoop([env |-> e2, result |-> TRUE],
                                    state_msg.attachable_objects)
        r4 == attachedBodiesLoop(r3, state_msg.attached_bodies, ord, g)
    IN  [env |-> allowedCollisionsLoop(r4.env, state_msg.allowed_collisions),
         state |-> NoState, result |-> r4.result]

\* the entries of the messages tried
AoMsg(operation, name) == [operation |-> operation, name |-> name, shapes |-> "box"]

AbMsg(operation, info) ==
    [operation |-> operation, object_name |-> info.object_name,
     parent_link_name |-> info.parent_link_name,
     transform |-> [position |-> info.transform[2], orientation |-> info.transform[1]],
     touch_links |-> info.touch_links]

\* what a message carries besides its two lists of entries: nothing, or a
\* joint state and an allowed collision
MsgRests ==
    {[joint_state |-> [name |-> <<>>, position |-> <<>>], allowed_collisions |-> <<>>],
     [joint_state |-> [name |-> <<"j2">>, position |-> <<1>>],
      allowed_collisions |-> <<[link_1 |-> "oA", link_2 |-> "l1", reason |-> "adjacent"]>>]}

\* the two lists of entries: objects added and attached, removed and
\* detached, and entries with operations that are not applied
MsgEntries ==
    {[attachable_objects |-> <<>>, attached_bodies |-> <<>>],
     [attachable_objects |-> <<AoMsg("ADD", "oA")>>,
      attached_bodies |-> <<AbMsg("ADD", Info_oA_l2)>>],
     [attachable_objects |-> <<AoMsg("ADD", "oA"), AoMsg("ADD", "oB")>>,
      attached_bodies |-> <<AbMsg("ADD", Info_oA_l2), AbMsg("ADD", Info_oB_oA)>>],
     [attachable_objects |-> <<>>, attached_bodies |-> <<AbMsg("REMOVE", Info_oA_l2)>>],
     [attachable_objects |-> <<AoMsg("REMOVE", "oA")>>, attached_bodies |-> <<>>],
     [attachable_objects |-> <<AoMsg("OTHER", "oA"), AoMsg("ADD", "oB")>>,
      attached_bodies |-> <<AbMsg("MOVE", Info_oA_l2), AbMsg("ADD", Info_oB_l1)>>],
     [attachable_objects |-> <<AoMsg("ADD", "oB")>>,
      attached_bodies |-> <<AbMsg("OTHER", Info_oA_l2), AbMsg("ADD", Info_oB_l1)>>]}

StateMsgs ==
    {[is_diff |-> d, joint_state |-> rest.joint_state,
      attachable_objects |-> entries.attachable_objects,
      attached_bodies |-> entries.attached_bodies,
      allowed_collisions |-> rest.allowed_collisions] :
        d \in BOOLEAN, rest \in MsgRests, entries \in MsgEntries}

ProcessTesseractStateMsg ==
    \E state_msg \in StateMsgs, ord \in Perms(ObjectNames), g \in Uninitialized :
        LET r == processTesseractStateMsg(Env, state_msg, ord, g)
        IN  /\ SetEnv(r.env)
            /\ call' = [op |-> "processTesseractStateMsg", overlay |-> EmptyMap,
                        state |-> NoState, args |-> <<state_msg>>, result |-> r.result]
            /\ UNCHANGED <<last_named, cdata, query, threads, ompl>>

NextMsg == ProcessTesseractStateMsg

SpecMsg == Init /\ [][NextMsg]_vars

\* the names the entries of a list give for an operation
NamesOf(entries, operation, field) ==
    {entries[i][field] : i \in {k \in 1 .. Len(entries) : entries[k].operation = operation}}

\* the objects a message both adds to the catalog and attaches, and neither
\* removes nor detaches
AddedAndAttached(state_msg) ==
    (NamesOf(state_msg.attachable_objects, "ADD", "name")
        \cap NamesOf(state_msg.attached_bodies, "ADD", "object_name"))
    \ (NamesOf(state_msg.attachable_objects, "REMOVE", "name")
        \cup NamesOf(state_msg.attached_bodies, "REMOVE", "object_name"))

\* nothing is left that a message that is not a diff does not name
OnlyWhatTheMessageNames(state_msg) ==
    /\ DOMAIN attached_bodies \subseteq NamesOf(state_msg.attached_bodies, "ADD", "object_name")
    /\ DOMAIN attachable_objects \subseteq NamesOf(state_msg.attachable_objects, "ADD", "name")
    /\ allowed_collision_matrix \subseteq
           {getObjectPairKey(state_msg.allowed_collisions[i].link_1,
                             state_msg.allowed_collisions[i].link_2) :
                i \in 1 .. Len(state_msg.allowed_collisions)}

\* the object is attached and its collision object is enabled in both managers
AttachedAndEnabled(name) ==
    /\ Has(attached_bodies, name)
    /\ Has(discrete_manager.objects, name) /\ discrete_manager.objects[name].enabled
    /\ Has(continuous_manager.objects, name) /\ continuous_manager.objects[name].enabled

\* C27: processTesseractStateMsg applies a message in a fixed order: for a
\* message that is not a diff the attached bodies, the catalog and the
\* allowed-collision matrix are cleared first, then come the joint state, the
\* attachable-object entries, the attached-body entries and the allowed
\* collisions.  So a message that both adds an object and attaches it leaves
\* the object attached and enabled, and after a message that is not a diff
\* no attached body, catalog object or allowed collision remains that the
\* message does not name.
C27_MessageAppliedInOrder ==
    call.op = "processTesseractStateMsg" =>
        LET state_msg == call.args[1]
        IN  /\ \A name \in AddedAndAttached(state_msg) : AttachedAndEnabled(name)
            /\ ~state_msg.is_diff => OnlyWhatTheMessageNames(state_msg)

\* the entries of a list with the operations that are applied
Applied(entries) == SelectSeq(entries, LAMBDA m : m.operation \in {"ADD", "REMOVE"})

\* C28: processTesseractStateMsg returns true only if every attachable-object
\* entry and every attached-body entry of the message was applied (operation
\* ADD or REMOVE); an entry with any other operation makes the call return
\* false, while all the other entries of the message are applied as if the
\* entry were not there.
C28_UnappliedEntryReturnsFalse ==
    [][ call'.op = "processTesseractStateMsg" =>
            LET state_msg == call'.args[1]
                applied   == [state_msg EXCEPT
                                 !.attachable_objects = Applied(@),
                                 !.attached_bodies = Applied(@)]
            IN  /\ call'.result <=> applied = state_msg
                /\ \E ord \in Perms(ObjectNames), g \in Uninitialized :
                       Env' = processTesseractStateMsg(Env, applied, ord, g).env
      ]_vars

(***************************************************************************)
(* tesseractTrajectoryToJointTrajectoryMsg with a start state, as          *)
(* plotTrajectory calls it with the live state.  A trajectory is a list of *)
(* rows with one value per name of joint_names.  The joints of the start   *)
(* state are visited in the iteration order of its unordered map (order).  *)
(***************************************************************************)
\* jn_to_index[joint.first] = j, for the joints in the order of iteration
IndexOf(order) == [n \in SeqToSet(order) |-> (CHOOSE k \in 1 .. Len(order) : order[k] = n) - 1]

\* the second loop over the columns of row i: jn_to_index[name] is 0 for a
\* name the first loop did not enter
RECURSIVE updateProvided(_, _, _, _)
updateProvided(positions, jn_to_index, joint_names, row) ==
    IF joint_names = <<>> THEN positions
    ELSE LET index == IF Has(jn_to_index, Head(joint_names))
                      THEN jn_to_index[Head(joint_names)] ELSE 0
         IN  updateProvided([positions EXCEPT ![index + 1] = Head(row)],
                            Put(jn_to_index, Head(joint_names), index),
                            Tail(joint_names), Tail(row))

\* tesseractTrajectoryToJointTrajectoryMsg(traj_msg, start_state, joint_names, traj)
tesseractTrajectoryToJointTrajectoryMsg(start_state, joint_names, traj, order) ==
    LET jn_to_index == IF traj = <<>> THEN EmptyMap ELSE IndexOf(order)
        start       == [k \in 1 .. Len(order) |-> start_state.joints[order[k]]]
    IN  [joint_names |-> IF traj = <<>> THEN [k \in 1 .. Len(order) |-> ""] ELSE order,
         points |-> [i \in 1 .. Len(traj) |->
                        updateProvided(start, jn_to_index, joint_names, traj[i])]]

\* the trajectories plotted: one or two rows of the values 2 and 3
TrajJointNames ==
    {<<"j1">>, <<"j2">>, <<"j2", "j1">>, <<"jx">>, <<"j2", "jx">>, <<"jx", "j1">>}

TrajRows(columns) == [1 .. columns -> {2, 3}]

Trajectories(columns) ==
    {<<r>> : r \in TrajRows(columns)}
        \cup {<<r1, r2>> : r1 \in TrajRows(columns), r2 \in TrajRows(columns)}

\* ROSBasicPlotting::plotTrajectory(joint_names, traj)
PlotTrajectory ==
    \E joint_names \in TrajJointNames, order \in Perms(DOMAIN current_state.joints) :
        \E traj \in Trajectories(Len(joint_names)) :
            /\ call' = [op |-> "plotTrajectory", overlay |-> EmptyMap,
                        state |-> current_state, args |-> <<joint_names, traj>>,
                        result |-> tesseractTrajectoryToJointTrajectoryMsg(
                                       current_state, joint_names, traj, order)]
            /\ UNCHANGED <<current_state, kdl_jnt_array, link_names, active_link_names,
                           attachable_objects, attached_bodies, allowed_collision_matrix,
                           discrete_manager, continuous_manager, last_named, cdata, query,
                           threads, ompl>>

NextTraj ==
    \/ SetStateVectorOf({<<"j1">>, <<"j2">>})
    \/ PlotTrajectory

SpecTraj == Init /\ [][NextTraj]_vars

\* C29: tesseractTrajectoryToJointTrajectoryMsg with a start state gives, for
\* every row of the trajectory, one position per joint of the start state:
\* a joint named in joint_names has the row's value for it and every joint
\* that joint_names does not name keeps its value of the start state, for
\* every joint_names list, also one that names a joint the start state does
\* not have.
C29_UnnamedJointsKeepStart ==
    call.op = "plotTrajectory" =>
        LET start       == call.state.joints
            joint_names == call.args[1]
            traj        == call.args[2]
            traj_msg    == call.result
        IN  /\ Len(traj_msg.points) = Len(traj)
            /\ SeqToSet(traj_msg.joint_names) = DOMAIN start
            /\ \A i \in 1 .. Len(traj) :
                /\ Len(traj_msg.points[i]) = Cardinality(DOMAIN start)
                /\ \A k \in 1 .. Len(traj_msg.joint_names) :
                    LET n == traj_msg.joint_names[k]
                    IN  traj_msg.points[i][k] =
                            IF Contains(joint_names, n)
                            THEN traj[i][CHOOSE j \in 1 .. Len(joint_names) : joint_names[j] = n]
                            ELSE start[n]

(***************************************************************************)
(* Loading a contact manager plugin by name.  The class loader is outside  *)
(* the sources: createUniqueInstance either hands back an instance of a    *)
(* plugin it knows, or, for a name it does not know, hands back no         *)
(* instance or throws before anything is assigned.                         *)
(***************************************************************************)
DiscretePlugins == {"BulletDiscreteBVHManager"}

ContinuousPlugins == {"BulletCastBVHManager"}

\* the names a caller may pass: the last one is known to neither loader
PluginArgs == DiscretePlugins \cup ContinuousPlugins \cup {"NoSuchManager"}

\* what createUniqueInstance(plugin) of a loader knowing the plugins known gives
createUniqueInstance(known, plugin) ==
    IF plugin \in known THEN {"instance"} ELSE {"nullptr", "throws"}

\* the loading that puts temp in place before looking at it
loadDiscreteContactManagerPlugin_assignsFirst(e, temp) ==
    IF temp = "throws" THEN Void(e)
    ELSE IF temp = "instance"
    THEN Void([e EXCEPT !.discrete_manager = loadContactManagerPlugin(e)])
    ELSE Void([e EXCEPT !.discrete_manager = EmptyManager])

\* KDLEnv::loadDiscreteContactManagerPlugin(plugin), temp the loader's answer
loadDiscreteContactManagerPlugin(e, temp) ==
    IF temp = "throws" THEN Void(e)
    ELSE IF temp = "instance"
    THEN Void([e EXCEPT !.discrete_manager = loadContactManagerPlugin(e)])
    ELSE Void(e)

\* KDLEnv::loadContinuousContactManagerPlugin(plugin), temp the loader's answer
loadContinuousContactManagerPlugin(e, temp) ==
    IF temp = "throws" THEN Void(e)
    ELSE IF temp = "instance"
    THEN Void([e EXCEPT !.continuous_manager = loadContactManagerPlugin(e)])
    ELSE Void(e)

LoadDiscreteContactManagerPlugin ==
    \E plugin \in PluginArgs :
        \E temp \in createUniqueInstance(DiscretePlugins, plugin) :
            /\ SetEnv(loadDiscreteContactManagerPlugin(Env, temp).env)
            /\ call' = [op |-> "loadDiscreteContactManagerPlugin", overlay |-> EmptyMap,
                        state |-> NoState, args |-> <<plugin>>, result |-> temp = "instance"]
            /\ UNCHANGED <<last_named, cdata, query, threads, ompl>>

LoadContinuousContactManagerPlugin ==
    \E plugin \in PluginArgs :
        \E temp \in createUniqueInstance(ContinuousPlugins, plugin) :
            /\ SetEnv(loadContinuousContactManagerPlugin(Env, temp).env)
            /\ call' = [op |-> "loadContinuousContactManagerPlugin", overlay |-> EmptyMap,
                        state |-> NoState, args |-> <<plugin>>, result |-> temp = "instance"]
            /\ UNCHANGED <<last_named, cdata, query, threads, ompl>>

LoadObjects == {o \in AttachCatalog : o.name \in ObjectNames}

LoadInfos == {Info_oA_l2, Info_oB_oA}

NextLoad ==
    \/ AddAttachableObject(LoadObjects)
    \/ AttachBody(LoadInfos)
    \/ DetachBody(ObjectNames)
    \/ LoadDiscreteContactManagerPlugin
    \/ LoadContinuousContactManagerPlugin

SpecLoad == Init /\ [][NextLoad]_vars

LoadOps == {"loadDiscreteContactManagerPlugin", "loadContinuousContactManagerPlugin"}

\* C30: when loadDiscreteContactManagerPlugin or
\* loadContinuousContactManagerPlugin fails to create the named plugin, both
\* managers stay as they were (objects, enabled flags, active set, transforms
\* and allowed-collision function) and nothing else of the environment
\* changes.
C30_FailedLoadChangesNothing ==
    [][(call'.op \in LoadOps /\ ~call'.result) =>
           UNCHANGED <<discrete_manager, continuous_manager, current_state, kdl_jnt_array,
                       link_names, active_link_names, attachable_objects,
                       attached_bodies, allowed_collision_matrix>>]_vars

\* a load failed while oA was attached, enabled and placed in both managers
C30_Witness ==
    /\ call.op \in LoadOps
    /\ ~call.result
    /\ call.args[1] = "NoSuchManager"
    /\ Has(attached_bodies, "oA")
    /\ discrete_manager.objects["oA"].enabled
    /\ discrete_manager.objects["oA"].pushed
    /\ Contains(discrete_manager.active, "oA")
    /\ discrete_manager.fn = "env"
    /\ continuous_manager.objects["oA"].enabled

(***************************************************************************)
(* The three setState overloads, given the same assignment in the same     *)
(* environment.                                                            *)
(***************************************************************************)
\* the start and end pose a manager holds for each of its objects
ManagerPoses(m) == [n \in DOMAIN m.objects |-> <<m.objects[n].tf1, m.objects[n].tf2>>]

\* what a setState leaves behind, as far as its callers can tell
LiveOutcome(e) ==
    [joints |-> e.current_state.joints, transforms |-> e.current_state.transforms,
     kdl_jnt_array |-> e.kdl_jnt_array,
     discrete |-> ManagerPoses(e.discrete_manager),
     continuous |-> ManagerPoses(e.continuous_manager)]

\* the three overloads agree on the assignment the two vectors stand for
OverloadsAgreeOn(joint_names, joint_values, ord, g) ==
    LET viaMap    == setState_map(Env, Overlay(joint_names, joint_values), ord, g).env
        viaVector == setState_vector(Env, joint_names, joint_values, ord, g).env
        viaEigen  == setState_eigen(Env, joint_names, joint_values, ord, g).env
    IN  /\ LiveOutcome(viaMap) = LiveOutcome(viaVector)
        /\ LiveOutcome(viaVector) = LiveOutcome(viaEigen)

\* C31: the three setState overloads (name-to-value map, name and value
\* vectors, name vector with Eigen vector) are equivalent: started from the
\* same environment state with the same name-to-value assignments they leave
\* identical live joint maps, live transforms, joint arrays and identical
\* start and end poses per object in the discrete and continuous managers.
C31_OverloadsEquivalent ==
    \A joint_names \in NameVectors, ord \in Perms(DOMAIN attached_bodies),
       g \in UninitializedFor(Parents(attached_bodies)) :
        \A joint_values \in ValueVectors(joint_names) :
            OverloadsAgreeOn(joint_names, joint_values, ord, g)

(***************************************************************************)
(* The catalog and the attached-body table together: every catalog and    *)
(* every attachment operation, in any order.                               *)
(***************************************************************************)
TableObjects == {o \in AttachCatalog : o.name \in ObjectNames}

TableInfos == {Info_oA_l2, Info_oB_oA}

NextTable ==
    \/ AddAttachableObject(TableObjects)
    \/ RemoveAttachableObject(ObjectNames)
    \/ ClearAttachableObjects
    \/ AttachBody(TableInfos)
    \/ DetachBody(ObjectNames)
    \/ ClearAttachedBodies

SpecTable == Init /\ [][NextTable]_vars

\* the manager holds a collision object of that name and it is enabled
EnabledIn(m, name) == Has(m.objects, name) /\ m.objects[name].enabled

\* C32: after any sequence of addAttachableObject, removeAttachableObject,
\* clearAttachableObjects, attachBody, detachBody and clearAttachedBodies
\* calls, a catalog object's collision object is enabled in both contact
\* managers if and only if that object is in the attached-body table.
C32_EnabledIffAttached ==
    \A name \in DOMAIN attachable_objects :
        /\ EnabledIn(discrete_manager, name) <=> Has(attached_bodies, name)
        /\ EnabledIn(continuous_manager, name) <=> Has(attached_bodies, name)

\* C33: after any sequence of catalog and attachment operations, every entry
\* of the attached-body table names an object that is in the attachable-object
\* catalog and has a collision object in both managers.
C33_NoDanglingAttachment ==
    \A name \in DOMAIN attached_bodies :
        /\ Has(attachable_objects, name)
        /\ Has(discrete_manager.objects, name)
        /\ Has(continuous_manager.objects, name)

(***************************************************************************)
(* The link-name lists and the keys of the live transforms while bodies    *)
(* are attached to links, to one another and to a parent that does not     *)
(* exist, detached one by one and cleared all at once.                     *)
(***************************************************************************)
LinkInfos == {Info_oA_l2, Info_oB_oA, Info_oB_ghost, Info_cam_l1}

NextLinks ==
    \/ AddAttachableObject(AttachCatalog)
    \/ AttachBody(LinkInfos)
    \/ DetachBody(ObjectNames)
    \/ ClearAttachedBodies

SpecLinks == Init /\ [][NextLinks]_vars

NoDuplicates(s) == \A i, j \in 1 .. Len(s) : s[i] = s[j] => i = j

\* the link-name list is the links of the mechanism followed by the attached
\* bodies, and the active-link list is a part of it
LinkListsConsistent ==
    /\ NoDuplicates(link_names)
    /\ Len(link_names) >= Len(UrdfLinks)
    /\ SubSeq(link_names, 1, Len(UrdfLinks)) = UrdfLinks
    /\ SeqToSet(SubSeq(link_names, Len(UrdfLinks) + 1, Len(link_names))) = DOMAIN attached_bodies
    /\ DOMAIN attached_bodies \cap SeqToSet(UrdfLinks) = {}
    /\ NoDuplicates(active_link_names)
    /\ SeqToSet(active_link_names) \subseteq SeqToSet(link_names)

\* C34: after any sequence of attachBody, detachBody and clearAttachedBodies
\* calls, the link-name list contains no duplicates and is exactly the
\* mechanism's link names followed by the names of the attached bodies, no
\* attached body shares a name with a mechanism link, the active-link list is
\* a duplicate-free subset of the link-name list, and the key set of the live
\* transform map equals the tree segments plus the attached bodies.
C34_LinkNamesAndTransformKeys ==
    /\ LinkListsConsistent
    /\ DOMAIN current_state.transforms = SegmentNames \cup DOMAIN attached_bodies

(***************************************************************************)
(* The joint map and the joint array: every overload of setState and of    *)
(* getState, in any order, on the mechanism alone.                         *)
(***************************************************************************)
NextJoints ==
    \/ SetStateMap
    \/ SetStateVector
    \/ SetStateEigen
    \/ GetStateMap
    \/ GetStateVector
    \/ GetStateEigen

SpecJoints == Init /\ [][NextJoints]_vars

\* the joint array a joint map stands for
ArrayOf(joints) ==
    [i \in 0 .. NrOfJoints - 1 |-> joints[CHOOSE j \in TreeJoints : joint_to_qnr[j] = i]]

\* C35: after init and after any sequence of setState and getState calls, for
\* every joint of the tree the value in the live state's joint map equals the
\* value in the environment's joint array at that joint's index, so the live
\* transforms are the transforms of the live joint map.
C35_JointMapMatchesArray ==
    /\ \A j \in TreeJoints :
        /\ Has(current_state.joints, j)
        /\ current_state.joints[j] = kdl_jnt_array[joint_to_qnr[j]]
    /\ \A s \in SegmentNames :
        current_state.transforms[s] =
            calculateTransformsHelper(EmptyMap, ArrayOf(current_state.joints),
                                      RootSegment, Identity)[s]

\* a setState that moved j2 alone, after j1 had been moved and an
\* assignment by map had named a joint the tree does not have
C35_Witness ==
    /\ call.op = "setState"
    /\ call.overlay = [j2 |-> 1]
    /\ current_state.joints["j1"] = 1
    /\ current_state.joints["j2"] = 1
    /\ Has(current_state.joints, "jx")
    /\ kdl_jnt_array = [i \in 0 .. NrOfJoints - 1 |-> 1]

(***************************************************************************)
(* The queries of KDLEnv that read the live state.  current_state_ is held *)
(* through a pointer, so the const queries reach its maps with operator[], *)
(* which inserts a default-constructed value for a key that is missing: 0  *)
(* for a joint value, an Eigen::Isometry3d of unspecified content (g) for  *)
(* a transform.                                                            *)
(***************************************************************************)
\* transforms[name]: the map after the access
transformsAt(transforms, name, g) ==
    IF Has(transforms, name) THEN transforms ELSE Put(transforms, name, g)

\* joints[name]: the map after the access
jointsAt(joints, name) ==
    IF Has(joints, name) THEN joints ELSE Put(joints, name, 0)

\* for (link_name : link_names_) link_tfs.push_back(transforms[link_name])
RECURSIVE linkTransformsLoop(_, _, _, _)
linkTransformsLoop(r, link_names_, i, g) ==
    IF i > Len(link_names_) THEN r
    ELSE LET transforms == transformsAt(r.env.current_state.transforms, link_names_[i], g)
         IN  linkTransformsLoop(
                 [env |-> [r.env EXCEPT !.current_state.transforms = transforms],
                  result |-> Append(r.result, transforms[link_names_[i]])],
                 link_names_, i + 1, g)

\* KDLEnv::getLinkTransforms(): link_tfs.resize(link_names_.size()) makes
\* that many elements of unspecified content, the loop appends after them
KDLEnv_getLinkTransforms(e, g) ==
    linkTransformsLoop([env |-> e, result |-> [i \in 1 .. Len(e.link_names) |-> g]],
                       e.link_names, 1, g)

\* KDLEnv::getLinkTransform(link_name)
getLinkTransform(e, link_name, g) ==
    LET transforms == transformsAt(e.current_state.transforms, link_name, g)
    IN  [env |-> [e EXCEPT !.current_state.transforms = transforms],
         result |-> transforms[link_name]]

\* joint_names_: the joints of the tree by their index in the joint array
joint_names_ == [i \in 1 .. NrOfJoints |-> CHOOSE j \in TreeJoints : joint_to_qnr[j] = i - 1]

\* for (j = 0; j < joint_names_.size(); ++j) jv(j) = joints[joint_names_[j]]
RECURSIVE jointValuesLoop(_, _, _)
jointValuesLoop(r, names, j) ==
    IF j > Len(names) THEN r
    ELSE LET joints == jointsAt(r.env.current_state.joints, names[j])
         IN  jointValuesLoop(
                 [env |-> [r.env EXCEPT !.current_state.joints = joints],
                  result |-> Append(r.result, joints[names[j]])],
                 names, j + 1)

\* KDLEnv::getCurrentJointValues()
KDLEnv_getCurrentJointValues(e) == jointValuesLoop([env |-> e, result |-> <<>>], joint_names_, 1)

\* KDLEnv::getCurrentJointValues(manipulator_name), with what it leaves behind
getCurrentJointValuesOf(e, manipulator_name) ==
    IF Has(manipulators, manipulator_name)
    THEN jointValuesLoop([env |-> e, result |-> <<>>],
                         manipulators[manipulator_name].joint_names, 1)
    ELSE [env |-> e, result |-> <<>>]

\* a query is recorded with the live state it was made in
Query(r, op, args, before) ==
    /\ SetEnv(r.env)
    /\ call' = [op |-> op, overlay |-> EmptyMap, state |-> before, args |-> args,
                result |-> r.result]

ReadLinkNames == {"l2", "oA", "ghost"}

ReadManipulatorNames == {"arm", "ghost"}

EnvGetLinkTransforms ==
    \E g \in Uninitialized :
        /\ Query(KDLEnv_getLinkTransforms(Env, g), "KDLEnv::getLinkTransforms", <<>>,
                 current_state)
        /\ UNCHANGED <<last_named, cdata, query, threads, ompl>>

EnvGetLinkTransform ==
    \E link_name \in ReadLinkNames, g \in Uninitialized :
        /\ Query(getLinkTransform(Env, link_name, g), "KDLEnv::getLinkTransform",
                 <<link_name>>, current_state)
        /\ UNCHANGED <<last_named, cdata, query, threads, ompl>>

EnvGetCurrentJointValues ==
    /\ \/ Query(KDLEnv_getCurrentJointValues(Env), "KDLEnv::getCurrentJointValues", <<>>,
                current_state)
       \/ \E manipulator_name \in ReadManipulatorNames :
              Query(getCurrentJointValuesOf(Env, manipulator_name),
                    "KDLEnv::getCurrentJointValues", <<manipulator_name>>, current_state)
    /\ UNCHANGED <<last_named, cdata, query, threads, ompl>>

NextRead ==
    \/ AddAttachableObject({o \in AttachableObjects : o.name = "oA"})
    \/ AttachBody(StateAttachedBodyInfos)
    \/ DetachBody({"oA"})
    \/ SetStateVectorOf({<<"j2">>})
    \/ EnvGetLinkTransforms
    \/ EnvGetLinkTransform
    \/ EnvGetCurrentJointValues

SpecRead == Init /\ [][NextRead]_vars

\* C36: getLinkTransforms returns exactly one transform per entry of the
\* link-name list, in the same order: the result has the length of the
\* link-name list and its i-th element is the live transform of the i-th
\* link name.
C36_OneTransformPerLink ==
    call.op = "KDLEnv::getLinkTransforms" =>
        /\ Len(call.result) = Len(link_names)
        /\ \A i \in 1 .. Len(link_names) :
               call.result[i] = current_state.transforms[link_names[i]]

ReadOps ==
    {"KDLEnv::getLinkTransforms", "KDLEnv::getLinkTransform", "KDLEnv::getCurrentJointValues"}

\* C37: the read-only queries getLinkTransform, getLinkTransforms and
\* getCurrentJointValues never change the live state: for any argument,
\* including a link or joint name that does not exist, the key set and the
\* values of the live joint map and of the live transform map are the same
\* after the call as before it.
C37_QueriesLeaveLiveState ==
    call.op \in ReadOps =>
        /\ current_state.joints = call.state.joints
        /\ current_state.transforms = call.state.transforms

(***************************************************************************)
(* clearAttachedBodies against detachBody, one attached body at a time.    *)
(***************************************************************************)
\* detachBody for every name of the list, in the order of the list
RECURSIVE detachEach(_, _)
detachEach(e, names) ==
    IF names = <<>> THEN e
    ELSE detachEach(detachBody(e, Head(names)).env, Tail(names))

\* the enabled flag of every object of a manager
EnabledFlags(m) == [n \in DOMAIN m.objects |-> m.objects[n].enabled]

\* what the attachments leave in the environment and in the managers
AttachmentView(e) ==
    [attached_bodies |-> e.attached_bodies, link_names |-> e.link_names,
     active_link_names |-> e.active_link_names, transforms |-> e.current_state.transforms,
     discrete_enabled |-> EnabledFlags(e.discrete_manager),
     discrete_active |-> e.discrete_manager.active,
     continuous_enabled |-> EnabledFlags(e.continuous_manager),
     continuous_active |-> e.continuous_manager.active]

\* C38: clearAttachedBodies is equivalent to calling detachBody once for
\* every attached body, in any order: both leave the same (empty)
\* attached-body table, link-name list, active-link list, live transform map
\* and the same enabled flags and active sets in both contact managers;
\* detachBody of a name that is not attached changes nothing.
C38_ClearIsDetachEach ==
    /\ \A names \in Perms(DOMAIN attached_bodies) :
        /\ AttachmentView(detachEach(Env, names)) = AttachmentView(clearAttachedBodies(Env).env)
        /\ detachEach(Env, names).attached_bodies = EmptyMap
    /\ \A name \in {"oA", "oB", "cam", "l1", "ghost"} \ DOMAIN attached_bodies :
        detachBody(Env, name).env = Env

\* two bodies hang on one another, the first on a moving link, so both are
\* active, enabled and have live transforms when they are cleared or detached
C38_Witness ==
    /\ DOMAIN attached_bodies = {"oA", "oB"}
    /\ attached_bodies["oB"].parent_link_name = "oA"
    /\ Contains(active_link_names, "oA") /\ Contains(active_link_names, "oB")
    /\ Has(current_state.transforms, "oB")
    /\ discrete_manager.objects["oB"].enabled
    /\ call.op = "attachBody"

\* the manager a successful load was asked for
LoadedManager ==
    IF call.op = "loadDiscreteContactManagerPlugin" THEN discrete_manager
    ELSE continuous_manager

\* the manager holds the links with collision geometry, enabled, and the
\* catalog objects, enabled if and only if attached
HoldsTheObjects(m) ==
    /\ \A l \in SegmentNames :
        Segments[l].collision => Has(m.objects, l) /\ m.objects[l].enabled
    /\ \A n \in DOMAIN attachable_objects :
        Has(m.objects, n) /\ (m.objects[n].enabled <=> Has(attached_bodies, n))

\* the manager has the active links and the live transforms of the environment
HoldsTheState(m) ==
    /\ m.active = active_link_names
    /\ \A n \in DOMAIN m.objects :
        Has(current_state.transforms, n) =>
            /\ m.objects[n].tf1 = current_state.transforms[n]
            /\ m.objects[n].tf2 = current_state.transforms[n]

\* C39: after loadDiscreteContactManagerPlugin or
\* loadContinuousContactManagerPlugin succeeds on an initialized environment,
\* the new manager agrees with the environment as the replaced one did: it
\* holds every mechanism link that has collision geometry (enabled) and every
\* catalog object (enabled if and only if attached), its active set equals
\* the environment's active-link list, and its stored transforms equal the
\* live transforms.
C39_LoadedManagerAgrees ==
    (call.op \in LoadOps /\ call.result) =>
        /\ HoldsTheObjects(LoadedManager)
        /\ HoldsTheState(LoadedManager)

(***************************************************************************)
(* The allowed-contact predicate of the planner against the policy of the  *)
(* environment.                                                            *)
(***************************************************************************)
\* ContinuousMotionValidator::isContactAllowed(a, b)
ContinuousMotionValidator_isContactAllowed(e, a, b) ==
    acmIsCollisionAllowed(e.allowed_collision_matrix, a, b)

\* the names contacts are asked about: links and catalog objects
ContactNames == {"cam", "l1", "l2", "oA", "oB"}

\* the planner's predicates answer as the environment's policy does
PlannerAgreesOn(a, b) ==
    /\ ChainOmplInterface_isContactAllowed(Env, a, b) = defaultIsContactAllowedFn(Env, a, b)
    /\ ContinuousMotionValidator_isContactAllowed(Env, a, b)
           = defaultIsContactAllowedFn(Env, a, b)

\* an attached body and its parent link or one of its touch links
AttachedPair(a, b) ==
    /\ Has(attached_bodies, a)
    /\ \/ b = attached_bodies[a].parent_link_name
       \/ Contains(attached_bodies[a].touch_links, b)

\* oA held by the moving link l2 at the link's own pose, touching l1
Info_oA_held ==
    [object_name |-> "oA", parent_link_name |-> "l2", transform |-> Identity,
     touch_links |-> <<"l1">>]

\* the environment the planner is constructed on: the mechanism holds oA
EnvHolding ==
    LET e1 == addAttachableObject(InitEnv, [name |-> "oA", shapes |-> "box"]).env
    IN  attachBody(e1, Info_oA_held, <<"oA">>, <<0, 0>>).env

InitPlanner == InitVarsWith(EnvHolding, ChainOmplInterface(EnvHolding))

SpecPlanner == InitPlanner /\ [][NextValid]_vars

\* C40: the allowed-collision predicate that the planner's validity check
\* (ChainOmplInterface::isStateValid and ContinuousMotionValidator) applies
\* agrees with the environment's policy on every pair of names: contact
\* between an attached body and its parent link or one of its touch links is
\* treated as allowed and never makes a state invalid.
C40_PlannerUsesEnvPolicy ==
    /\ \A a, b \in ContactNames : PlannerAgreesOn(a, b)
    /\ \A a, b \in ContactNames :
        AttachedPair(a, b) =>
            /\ isContactAllowed(Env, a, b, ompl.contact_manager.fn)
            /\ \A t \in Threads :
                   getObjectPairKey(a, b) \notin DOMAIN threads[t].contact_map

====
